---- MODULE Spec2Model ----
(***************************************************************************)
(* Receipt ingestion pipeline of shelflife-ai (backend/app): the receipts  *)
(* router, ReceiptService, OCRService and the schemas they exchange.       *)
(*                                                                         *)
(* Text is modelled character by character: a Python str is a sequence of  *)
(* one-character strings, so that splitting, stripping, lower-casing and   *)
(* the regular expressions of the source are computed, not assumed.        *)
(***************************************************************************)
EXTENDS Integers, Sequences, FiniteSets, TLC

(***************************************************************************)
(* Bounds of the model.                                                    *)
(***************************************************************************)
MaxReceipts == 1
MaxQueue == 1
MaxTime == 1
MaxItems == 2

(***************************************************************************)
(* Python str primitives.                                                  *)
(***************************************************************************)
WS == {" ", "\t", "\n", "\r"}
DIGITS == {"0", "1", "2", "3", "4", "5", "6", "7", "8", "9"}
UPPER == <<"A", "B", "C", "D", "E", "F", "G", "H", "I", "J", "K", "L", "M",
           "N", "O", "P", "Q", "R", "S", "T", "U", "V", "W", "X", "Y", "Z">>
LOWER == <<"a", "b", "c", "d", "e", "f", "g", "h", "i", "j", "k", "l", "m",
           "n", "o", "p", "q", "r", "s", "t", "u", "v", "w", "x", "y", "z">>

LowerChar(c) ==
    IF \E i \in 1..Len(UPPER) : UPPER[i] = c
    THEN LOWER[CHOOSE i \in 1..Len(UPPER) : UPPER[i] = c]
    ELSE c

lower(s) == [i \in 1..Len(s) |-> LowerChar(s[i])]

\* s.strip()
strip(s) ==
    LET idx == {i \in 1..Len(s) : s[i] \notin WS}
    IN  IF idx = {} THEN <<>>
        ELSE SubSeq(s, CHOOSE i \in idx : \A j \in idx : i <= j,
                       CHOOSE i \in idx : \A j \in idx : i >= j)

\* k in s
Contains(s, k) ==
    \E i \in 0..(Len(s) - Len(k)) : SubSeq(s, i + 1, i + Len(k)) = k

\* s.isdigit()
isdigit(s) == Len(s) > 0 /\ \A i \in 1..Len(s) : s[i] \in DIGITS

\* s.split('\n')
RECURSIVE split_lines(_)
split_lines(s) ==
    IF \A i \in 1..Len(s) : s[i] # "\n" THEN <<s>>
    ELSE LET p == CHOOSE i \in 1..Len(s) :
                      s[i] = "\n" /\ \A j \in 1..(i - 1) : s[j] # "\n"
         IN  <<SubSeq(s, 1, p - 1)>> \o split_lines(SubSeq(s, p + 1, Len(s)))

\* ' '.join(parts)
RECURSIVE join(_)
join(parts) ==
    IF parts = <<>> THEN <<>>
    ELSE IF Len(parts) = 1 THEN parts[1]
    ELSE parts[1] \o <<" ">> \o join(Tail(parts))

\* the digit a character stands for
DigitValue(c) == CHOOSE n \in 0..9 : <<"0", "1", "2", "3", "4", "5", "6", "7", "8", "9">>[n + 1] = c

\* int(s) of a string of digits
RECURSIVE int(_)
int(s) ==
    IF s = <<>> THEN 0
    ELSE 10 * int(SubSeq(s, 1, Len(s) - 1)) + DigitValue(s[Len(s)])

\* re.fullmatch(r'\d+\.\d{2}', w)
IsPrice(w) ==
    /\ Len(w) >= 4
    /\ w[Len(w) - 2] = "."
    /\ w[Len(w) - 1] \in DIGITS /\ w[Len(w)] \in DIGITS
    /\ \A i \in 1..(Len(w) - 3) : w[i] \in DIGITS

\* float(w) of a price, counted in hundredths
PriceValue(w) ==
    100 * int(SubSeq(w, 1, Len(w) - 3)) + int(SubSeq(w, Len(w) - 1, Len(w)))

(***************************************************************************)
(* Optional values: None is the empty tuple, a present value v is <<v>>.   *)
(***************************************************************************)
NoneV == <<>>
Some(v) == <<v>>
IsNone(o) == o = <<>>
Get(o) == o[1]

(***************************************************************************)
(* OCRService (backend/app/services/ocr_service.py).                       *)
(*                                                                         *)
(* An image is what the file path holds: whether cv2.imread can load it,   *)
(* and the word list pytesseract.image_to_data reports for it.             *)
(***************************************************************************)
Images ==
    << [readable |-> FALSE, data |-> <<>>],
       [readable |-> TRUE,
        data |-> << [text |-> <<"M", "I", "L", "K">>, conf |-> 95],
                    [text |-> <<"3", ".", "4", "9">>, conf |-> 91] >>],
       [readable |-> TRUE, data |-> << [text |-> <<>>, conf |-> -1] >>] >>

ImageIds == 1..Len(Images)

\* A confidence on the 0-1 scale, kept as an exact fraction num/den.
Frac(n, d) == [num |-> n, den |-> d]
ZeroConfidence == Frac(0, 1)

\* cv2.imread gives None for a file it cannot load; cv2.cvtColor then raises.
_preprocess_image(image) == [raised |-> ~image.readable]

RECURSIVE KeptParts(_)
KeptParts(data) ==
    IF data = <<>> THEN <<>>
    ELSE LET text == strip(Head(data).text)
         IN  (IF Head(data).conf > 30 /\ text # <<>> THEN <<text>> ELSE <<>>)
             \o KeptParts(Tail(data))

_filter_low_confidence_text(data) == join(KeptParts(data))

\* re.sub(r'\s+', ' ', text)
RECURSIVE CollapseWhitespace(_)
CollapseWhitespace(s) ==
    IF s = <<>> THEN <<>>
    ELSE IF s[Len(s)] \notin WS
         THEN CollapseWhitespace(SubSeq(s, 1, Len(s) - 1)) \o <<s[Len(s)]>>
    ELSE IF Len(s) > 1 /\ s[Len(s) - 1] \in WS
         THEN CollapseWhitespace(SubSeq(s, 1, Len(s) - 1))
    ELSE CollapseWhitespace(SubSeq(s, 1, Len(s) - 1)) \o <<" ">>

_clean_extracted_text(text) ==
    LET t1 == strip(CollapseWhitespace(text))
        t2 == [i \in 1..Len(t1) |-> IF t1[i] = "|" THEN "I" ELSE t1[i]]
        t3 == [i \in 1..Len(t2) |->
                  IF t2[i] \in {"0", "O"} /\ i < Len(t2) /\ t2[i + 1] \in DIGITS
                  THEN "0" ELSE t2[i]]
        t4 == [i \in 1..Len(t3) |->
                  IF t3[i] \in {"0", "O"} /\ i > 1 /\ t3[i - 1] \in DIGITS
                  THEN "0" ELSE t3[i]]
    IN  t4

RECURSIVE SumPositive(_)
SumPositive(data) ==
    IF data = <<>> THEN 0
    ELSE (IF Head(data).conf > 0 THEN Head(data).conf ELSE 0) + SumPositive(Tail(data))

CountPositive(data) == Cardinality({i \in 1..Len(data) : data[i].conf > 0})

\* extract_text without its try/except: an internal error leaves the function
extract_text_unguarded(image, ocr_error) ==
    IF _preprocess_image(image).raised \/ ocr_error
    THEN [raised |-> TRUE, text |-> <<>>, confidence |-> ZeroConfidence]
    ELSE [raised |-> FALSE,
          text |-> _clean_extracted_text(_filter_low_confidence_text(image.data)),
          confidence |->
              IF CountPositive(image.data) = 0 THEN Frac(0, 100)
              ELSE Frac(SumPositive(image.data), 100 * CountPositive(image.data))]

\* ' '.join replaced by a line break after every kept token
RECURSIVE FoldLines(_)
FoldLines(parts) ==
    IF parts = <<>> THEN <<>>
    ELSE <<"\n">> \o Head(parts) \o FoldLines(Tail(parts))

\* extract_text putting each token on a line of its own, without the cleaning
extract_text_lines(image, ocr_error) ==
    [raised |-> FALSE,
     text |-> IF KeptParts(image.data) = <<>> THEN <<>>
              ELSE Tail(FoldLines(KeptParts(image.data))),
     confidence |-> ZeroConfidence]

\* extract_text(image_path); ocr_error: pytesseract.image_to_data raises.
\* The whole body is inside try/except Exception, which returns the empty result.
extract_text(image, ocr_error) ==
    IF _preprocess_image(image).raised \/ ocr_error
    THEN [raised |-> FALSE, text |-> <<>>, confidence |-> ZeroConfidence]
    ELSE [raised |-> FALSE,
          text |-> _clean_extracted_text(_filter_low_confidence_text(image.data)),
          confidence |->
              IF CountPositive(image.data) = 0 THEN Frac(0, 100)
              ELSE Frac(SumPositive(image.data), 100 * CountPositive(image.data))]

(***************************************************************************)
(* Schemas (backend/app/schemas/__init__.py).  A pydantic model keeps the  *)
(* declared fields only: a keyword that names no field is ignored, and     *)
(* reading an attribute that is no field raises AttributeError.            *)
(***************************************************************************)
ParsedReceiptItemFields ==
    {"name", "category", "brand", "quantity", "unit", "price", "estimated_expiry_date"}

\* quantity: Optional[float] converts the numeric string it is given
Float(v) == [t |-> "float", v |-> v]
Str(s) == [t |-> "str", v |-> s]

CoerceField(f, o) ==
    IF f = "quantity" /\ ~IsNone(o) /\ Get(o).t = "str" /\ isdigit(Get(o).v)
    THEN Some(Float(int(Get(o).v)))
    ELSE o

ParsedReceiptItem(kwargs) ==
    [f \in ParsedReceiptItemFields |->
        IF f \in DOMAIN kwargs THEN CoerceField(f, kwargs[f]) ELSE NoneV]

HasAttr(obj, attr) == attr \in DOMAIN obj

\* ExpiryPredictionResponse: the fields without a default must be supplied
ExpiryPredictionResponseRequired ==
    {"predicted_expiry_date", "confidence_score", "days_until_expiry"}

(***************************************************************************)
(* ReceiptService: the Line Parser and the Categorizer.                    *)
(***************************************************************************)
non_item_keywords ==
    << <<"r", "e", "c", "e", "i", "p", "t">>,
       <<"t", "h", "a", "n", "k", " ", "y", "o", "u">>,
       <<"t", "o", "t", "a", "l">>,
       <<"s", "u", "b", "t", "o", "t", "a", "l">>,
       <<"t", "a", "x">>,
       <<"c", "h", "a", "n", "g", "e">>,
       <<"c", "a", "s", "h", "i", "e", "r">>,
       <<"s", "t", "o", "r", "e">>,
       <<"p", "h", "o", "n", "e">>,
       <<"a", "d", "d", "r", "e", "s", "s">>,
       <<"d", "a", "t", "e">>,
       <<"t", "i", "m", "e">>,
       <<"b", "a", "l", "a", "n", "c", "e">>,
       <<"p", "a", "y", "m", "e", "n", "t">>,
       <<"v", "i", "s", "a">>,
       <<"m", "a", "s", "t", "e", "r", "c", "a", "r", "d">>,
       <<"c", "a", "s", "h">>,
       <<"t", "e", "n", "d", "e", "r">>,
       <<"r", "e", "f", "u", "n", "d">>,
       <<"d", "i", "s", "c", "o", "u", "n", "t">>,
       <<"c", "o", "u", "p", "o", "n">>,
       <<"s", "a", "v", "e">>,
       <<"m", "e", "m", "b", "e", "r">>,
       <<"r", "e", "w", "a", "r", "d", "s">>,
       <<"p", "o", "i", "n", "t", "s">>,
       <<"e", "x", "p", "i", "r", "e", "s">>,
       <<"v", "a", "l", "i", "d">> >>

_is_non_item_line(line) ==
    \E k \in 1..Len(non_item_keywords) : Contains(lower(line), non_item_keywords[k])

categories ==
    << [category |-> "dairy", keywords |->
            << <<"m", "i", "l", "k">>,
               <<"c", "h", "e", "e", "s", "e">>,
               <<"y", "o", "g", "u", "r", "t">>,
               <<"b", "u", "t", "t", "e", "r">>,
               <<"c", "r", "e", "a", "m">> >>],
       [category |-> "meat", keywords |->
            << <<"c", "h", "i", "c", "k", "e", "n">>,
               <<"b", "e", "e", "f">>,
               <<"p", "o", "r", "k">>,
               <<"t", "u", "r", "k", "e", "y">>,
               <<"f", "i", "s", "h">>,
               <<"s", "a", "l", "m", "o", "n">> >>],
       [category |-> "vegetables", keywords |->
            << <<"l", "e", "t", "t", "u", "c", "e">>,
               <<"s", "p", "i", "n", "a", "c", "h">>,
               <<"c", "a", "r", "r", "o", "t">>,
               <<"b", "r", "o", "c", "c", "o", "l", "i">>,
               <<"t", "o", "m", "a", "t", "o">> >>],
       [category |-> "fruits", keywords |->
            << <<"b", "a", "n", "a", "n", "a">>,
               <<"a", "p", "p", "l", "e">>,
               <<"o", "r", "a", "n", "g", "e">>,
               <<"g", "r", "a", "p", "e">>,
               <<"b", "e", "r", "r", "y">> >>],
       [category |-> "bakery", keywords |->
            << <<"b", "r", "e", "a", "d">>,
               <<"r", "o", "l", "l">>,
               <<"b", "a", "g", "e", "l">>,
               <<"m", "u", "f", "f", "i", "n">>,
               <<"c", "a", "k", "e">> >>],
       [category |-> "pantry", keywords |->
            << <<"p", "a", "s", "t", "a">>,
               <<"r", "i", "c", "e">>,
               <<"b", "e", "a", "n">>,
               <<"c", "e", "r", "e", "a", "l">>,
               <<"s", "o", "u", "p">>,
               <<"s", "a", "u", "c", "e">> >>] >>

RECURSIVE FirstCategory(_, _)
FirstCategory(item_lower, k) ==
    IF k > Len(categories) THEN "pantry"
    ELSE IF \E j \in 1..Len(categories[k].keywords) :
                Contains(item_lower, categories[k].keywords[j])
         THEN categories[k].category
    ELSE FirstCategory(item_lower, k + 1)

\* _categorize_item keeping the last category that matches instead of the first
RECURSIVE LastCategory(_, _)
LastCategory(item_lower, k) ==
    IF k = 0 THEN "pantry"
    ELSE IF \E j \in 1..Len(categories[k].keywords) :
                Contains(item_lower, categories[k].keywords[j])
         THEN categories[k].category
    ELSE LastCategory(item_lower, k - 1)

_categorize_item_last(item_name) == LastCategory(lower(item_name), Len(categories))

_categorize_item(item_name) == FirstCategory(lower(item_name), 1)

\* index where the last whitespace-free word of the line starts
LastWordStart(line) ==
    LET ws == {i \in 1..Len(line) : line[i] \in WS}
    IN  IF ws = {} THEN 1 ELSE 1 + CHOOSE i \in ws : \A j \in ws : j <= i

\* length of the longest prefix of digits
DigitPrefix(line) ==
    CHOOSE d \in 0..Len(line) :
        /\ \A i \in 1..d : line[i] \in DIGITS
        /\ (d < Len(line) => line[d + 1] \notin DIGITS)

\* ^(\d+)\s+(.+?)\s+(\d+\.\d{2})$
Pattern1(line) ==
    LET d == DigitPrefix(line)
        j == LastWordStart(line)
    IN  /\ d >= 1
        /\ j - 1 - d >= 3
        /\ line[d + 1] \in WS
        /\ IsPrice(SubSeq(line, j, Len(line)))

\* ^(.+?)\s+(\d+\.\d{2})$
Pattern2(line) ==
    LET j == LastWordStart(line)
    IN  j >= 3 /\ IsPrice(SubSeq(line, j, Len(line)))

\* ^(.+?)\s+\$(\d+\.\d{2})$
Pattern3(line) ==
    LET j == LastWordStart(line)
    IN  j >= 3 /\ j <= Len(line) /\ line[j] = "$"
        /\ IsPrice(SubSeq(line, j + 1, Len(line)))

\* The dict _extract_item_info returns, or None.  confidence is in hundredths.
_extract_item_info(line) ==
    LET d == DigitPrefix(line)
        j == LastWordStart(line)
    IN  IF Pattern1(line)
        THEN Some([quantity |-> Some(Str(SubSeq(line, 1, d))),
                   name |-> strip(SubSeq(line, d + 1, j - 1)),
                   price |-> Some(PriceValue(SubSeq(line, j, Len(line)))),
                   confidence |-> Some(90)])
        ELSE IF Pattern2(line)
        THEN Some([quantity |-> NoneV,
                   name |-> strip(SubSeq(line, 1, j - 1)),
                   price |-> Some(PriceValue(SubSeq(line, j, Len(line)))),
                   confidence |-> Some(80)])
        ELSE IF Pattern3(line)
        THEN Some([quantity |-> NoneV,
                   name |-> strip(SubSeq(line, 1, j - 1)),
                   price |-> Some(PriceValue(SubSeq(line, j + 1, Len(line)))),
                   confidence |-> Some(80)])
        ELSE IF Len(line) > 3 /\ ~isdigit(line)
        THEN Some([quantity |-> NoneV, name |-> strip(line),
                   price |-> NoneV, confidence |-> Some(50)])
        ELSE NoneV

\* one iteration of the loop of parse_receipt_items
ParseLine(raw) ==
    LET line == strip(raw)
    IN  IF line = <<>> \/ Len(line) < 3 THEN <<>>
        ELSE IF _is_non_item_line(line) THEN <<>>
        ELSE LET item_info == _extract_item_info(line)
             IN  IF IsNone(item_info) THEN <<>>
                 ELSE << ParsedReceiptItem(
                            [name |-> Get(item_info).name,
                             quantity |-> Get(item_info).quantity,
                             price |-> Get(item_info).price,
                             category |-> Some(_categorize_item(Get(item_info).name)),
                             confidence |-> Get(item_info).confidence]) >>

RECURSIVE ParseLines(_)
ParseLines(lines) ==
    IF lines = <<>> THEN <<>>
    ELSE ParseLine(Head(lines)) \o ParseLines(Tail(lines))

parse_receipt_items(ocr_text) == ParseLines(split_lines(ocr_text))

(***************************************************************************)
(* MLService.predict_expiry builds its result as                           *)
(* ExpiryPredictionResponse(predicted_expiry_date, confidence_score,       *)
(* estimated_shelf_life_days, factors): pydantic raises ValidationError    *)
(* when a required field of the schema is not among the keywords.          *)
(***************************************************************************)
PredictExpiryKeywords ==
    {"predicted_expiry_date", "confidence_score", "estimated_shelf_life_days", "factors"}

predict_expiry(product_name, category, purchase_date) ==
    IF ExpiryPredictionResponseRequired \subseteq PredictExpiryKeywords
    THEN [raised |-> FALSE, exc |-> "none"]
    ELSE [raised |-> TRUE, exc |-> "ValidationError"]

(***************************************************************************)
(* Persistent state and the event loop.                                    *)
(*                                                                         *)
(* receipts : the receipts table, receipt id -> row                        *)
(* items    : the inventory_items table, in insertion order                *)
(* queue    : the tasks asyncio.create_task has scheduled, oldest first    *)
(* cur      : the pipeline task the event loop is executing, and where     *)
(* now      : the clock datetime.utcnow() reads                            *)
(*                                                                         *)
(* process_receipt_async contains no await, and every request handler is   *)
(* an async def whose database calls are synchronous: the event loop runs  *)
(* one of them at a time, to completion.  The steps of a run are its       *)
(* commits, which is what another reader of the database, or a crash, can  *)
(* see of it.                                                              *)
(***************************************************************************)
VARIABLES receipts, nextReceipt, items, queue, cur, now

vars == <<receipts, nextReceipt, items, queue, cur, now>>

Users == {"u1", "u2"}
ReceiptIds == 1..MaxReceipts
Statuses == {"pending", "processing", "completed", "failed"}

Idle ==
    [pc |-> "idle", rid |-> 0, origin |-> "none", text |-> <<>>,
     confidence |-> ZeroConfidence, ocr_failed |-> FALSE, parsed |-> <<>>,
     exc |-> "none", saved |-> FALSE, written |-> 0, redo |-> FALSE]

\* the task created for a receipt; redo: the run finds the receipt completed
NewRun(task, rs) ==
    [Idle EXCEPT !.rid = task.rid, !.origin = task.origin,
                 !.redo = /\ task.rid \in DOMAIN rs
                          /\ rs[task.rid].processing_status = "completed"]

Init ==
    /\ receipts = <<>>
    /\ nextReceipt = 1
    /\ items = <<>>
    /\ queue = <<>>
    /\ cur = Idle
    /\ now = 0

(***************************************************************************)
(* ReceiptService: persistence.                                            *)
(***************************************************************************)
\* create_receipt; processed_at takes the column default, utcnow
create_receipt(user_id, file, t) ==
    [user_id |-> user_id, file |-> file, receipt_date |-> NoneV,
     processing_status |-> "pending", created_at |-> t, processed_at |-> t,
     ocr_text |-> NoneV]

\* update_processing_status inserting the row it does not find
update_processing_status_upsert(rs, receipt_id, status, t) ==
    [r \in DOMAIN rs \cup {receipt_id} |->
        IF r = receipt_id
        THEN [(IF r \in DOMAIN rs THEN rs[r] ELSE create_receipt("u1", 1, t))
                 EXCEPT !.processing_status = status, !.processed_at = t]
        ELSE rs[r]]

update_processing_status(rs, receipt_id, status, t) ==
    IF receipt_id \in DOMAIN rs
    THEN [rs EXCEPT ![receipt_id].processing_status = status,
                    ![receipt_id].processed_at = t]
    ELSE rs

\* update_ocr_text without the filter on the receipt id
update_ocr_text_everywhere(rs, receipt_id, ocr_text) ==
    [r \in DOMAIN rs |-> [rs[r] EXCEPT !.ocr_text = Some(ocr_text)]]

update_ocr_text(rs, receipt_id, ocr_text) ==
    IF receipt_id \in DOMAIN rs
    THEN [rs EXCEPT ![receipt_id].ocr_text = Some(ocr_text)]
    ELSE rs

\* float truthiness of item.quantity
Truthy(q) == ~IsNone(q) /\ Get(q).v # 0

\* what building the InventoryItem of one parsed item raises, if anything:
\* _parse_quantity and _parse_unit apply re to item.quantity, which must be a str;
\* confidence_score reads item.confidence
RowException(item) ==
    IF Truthy(item.quantity) /\ Get(item.quantity).t # "str" THEN "TypeError"
    ELSE IF ~HasAttr(item, "confidence") THEN "AttributeError"
    ELSE "none"

\* the InventoryItem built without the receipt's id and under a fixed user
Row_unlinked(receipt_id, receipt, item, t) ==
    [user_id |-> "u1", receipt_id |-> 0, name |-> item.name,
     category |-> item.category, quantity |-> 1, unit |-> "item",
     purchase_price |-> item.price,
     purchase_date |-> IF IsNone(receipt.receipt_date) THEN receipt.created_at
                       ELSE Get(receipt.receipt_date),
     predicted_expiry_date |-> item.estimated_expiry_date,
     confidence_score |-> IF HasAttr(item, "confidence") THEN item["confidence"] ELSE NoneV,
     source |-> "receipt", status |-> "fresh", created_at |-> t]

Row(receipt_id, receipt, item, t) ==
    [user_id |-> receipt.user_id, receipt_id |-> receipt_id, name |-> item.name,
     category |-> item.category, quantity |-> 1, unit |-> "item",
     purchase_price |-> item.price,
     purchase_date |-> IF IsNone(receipt.receipt_date) THEN receipt.created_at
                       ELSE Get(receipt.receipt_date),
     predicted_expiry_date |-> item.estimated_expiry_date,
     confidence_score |-> IF HasAttr(item, "confidence") THEN item["confidence"] ELSE NoneV,
     source |-> "receipt", status |-> "fresh", created_at |-> t]

\* save_parsing_results reading items[0] before its loop: IndexError on an empty list
save_parsing_results_first_item(rs, receipt_id, parsed, t) ==
    IF receipt_id \notin DOMAIN rs THEN [raised |-> FALSE, exc |-> "none", rows |-> <<>>]
    ELSE IF parsed = <<>> THEN [raised |-> TRUE, exc |-> "IndexError", rows |-> <<>>]
    ELSE IF \E i \in 1..Len(parsed) : RowException(parsed[i]) # "none"
    THEN [raised |-> TRUE, exc |-> "AttributeError", rows |-> <<>>]
    ELSE [raised |-> FALSE, exc |-> "none",
          rows |-> [i \in 1..Len(parsed) |-> Row(receipt_id, rs[receipt_id], parsed[i], t)]]

\* save_parsing_results: the rows one commit adds, or the exception raised
\* while the rows are built (nothing is committed then)
save_parsing_results(rs, receipt_id, parsed, t) ==
    IF receipt_id \notin DOMAIN rs THEN [raised |-> FALSE, exc |-> "none", rows |-> <<>>]
    ELSE IF \E i \in 1..Len(parsed) : RowException(parsed[i]) # "none"
    THEN [raised |-> TRUE,
          exc |-> RowException(parsed[CHOOSE i \in 1..Len(parsed) :
                      /\ RowException(parsed[i]) # "none"
                      /\ \A j \in 1..(i - 1) : RowException(parsed[j]) = "none"]),
          rows |-> <<>>]
    ELSE [raised |-> FALSE, exc |-> "none",
          rows |-> [i \in 1..Len(parsed) |-> Row(receipt_id, rs[receipt_id], parsed[i], t)]]

\* the first exception the loop over parsed_items raises in predict_expiry
PredictAll(parsed, receipt) ==
    IF parsed = <<>> THEN [raised |-> FALSE, exc |-> "none"]
    ELSE predict_expiry(parsed[1].name, parsed[1].category, receipt.receipt_date)

(***************************************************************************)
(* Request handlers (backend/app/routers/receipts.py).                     *)
(***************************************************************************)
upload_receipt(user, file) ==
    /\ cur.pc = "idle"
    /\ nextReceipt <= MaxReceipts
    /\ Len(queue) < MaxQueue
    /\ receipts' = [r \in DOMAIN receipts \cup {nextReceipt} |->
                       IF r = nextReceipt THEN create_receipt(user, file, now)
                       ELSE receipts[r]]
    /\ nextReceipt' = nextReceipt + 1
    /\ queue' = Append(queue, [rid |-> nextReceipt, origin |-> "upload"])
    /\ UNCHANGED <<items, cur, now>>

reprocess_receipt(receipt_id, user) ==
    /\ cur.pc = "idle"
    /\ receipt_id \in DOMAIN receipts
    /\ receipts[receipt_id].user_id = user
    /\ Len(queue) < MaxQueue
    /\ queue' = Append(queue, [rid |-> receipt_id, origin |-> "reprocess"])
    /\ UNCHANGED <<receipts, nextReceipt, items, cur, now>>

\* delete_receipt leaving the inventory items of the receipt in place
delete_receipt_keeping_items(receipt_id, user) ==
    /\ cur.pc = "idle"
    /\ receipt_id \in DOMAIN receipts
    /\ receipts[receipt_id].user_id = user
    /\ receipts' = [r \in DOMAIN receipts \ {receipt_id} |-> receipts[r]]
    /\ UNCHANGED <<nextReceipt, items, queue, cur, now>>

delete_receipt(receipt_id, user) ==
    /\ cur.pc = "idle"
    /\ receipt_id \in DOMAIN receipts
    /\ receipts[receipt_id].user_id = user
    /\ items' = SelectSeq(items, LAMBDA row : row.receipt_id # receipt_id)
    /\ receipts' = [r \in DOMAIN receipts \ {receipt_id} |-> receipts[r]]
    /\ UNCHANGED <<nextReceipt, queue, cur, now>>

(***************************************************************************)
(* process_receipt_async, one action per persistence call.  fault: the     *)
(* call raises (the database refuses the query or the commit, and the      *)
(* transaction is rolled back).                                            *)
(***************************************************************************)
Raise(run, exc) == [run EXCEPT !.pc = "handler", !.exc = exc]

\* the run without its first status write
SetProcessing_NoWrite(fault) ==
    /\ cur.pc = "idle"
    /\ queue # <<>>
    /\ queue' = Tail(queue)
    /\ IF fault
       THEN cur' = Raise(NewRun(Head(queue), receipts), "storage")
       ELSE cur' = [NewRun(Head(queue), receipts) EXCEPT !.pc = "get_receipt"]
    /\ UNCHANGED <<receipts, nextReceipt, items, now>>

\* line 187: update_processing_status(receipt_id, "processing")
SetProcessing(fault) ==
    /\ cur.pc = "idle"
    /\ queue # <<>>
    /\ queue' = Tail(queue)
    /\ IF fault
       THEN /\ cur' = Raise(NewRun(Head(queue), receipts), "storage")
            /\ UNCHANGED receipts
       ELSE /\ receipts' = update_processing_status(receipts, Head(queue).rid, "processing", now)
            /\ cur' = [NewRun(Head(queue), receipts) EXCEPT !.pc = "get_receipt"]
    /\ UNCHANGED <<nextReceipt, items, now>>

\* lines 190-195: get_receipt_by_id, the early return, extract_text
GetReceiptAndExtract(fault, ocr_error) ==
    /\ cur.pc = "get_receipt"
    /\ IF fault THEN cur' = Raise(cur, "storage")
       ELSE IF cur.rid \notin DOMAIN receipts THEN cur' = [cur EXCEPT !.pc = "done"]
       ELSE LET ocr_result == extract_text(Images[receipts[cur.rid].file], ocr_error)
            IN  IF ocr_result.raised THEN cur' = Raise(cur, "ocr")
                ELSE cur' = [cur EXCEPT !.pc = "update_ocr_text",
                                        !.text = ocr_result.text,
                                        !.confidence = ocr_result.confidence,
                                        !.ocr_failed =
                                            \/ ocr_error
                                            \/ _preprocess_image(Images[receipts[cur.rid].file]).raised]
    /\ UNCHANGED <<receipts, nextReceipt, items, queue, now>>

\* line 196: update_ocr_text(receipt_id, ocr_result.text)
UpdateOcrText(fault) ==
    /\ cur.pc = "update_ocr_text"
    /\ IF fault
       THEN /\ cur' = Raise(cur, "storage")
            /\ UNCHANGED receipts
       ELSE /\ receipts' = update_ocr_text(receipts, cur.rid, cur.text)
            /\ cur' = [cur EXCEPT !.pc = "parse"]
    /\ UNCHANGED <<nextReceipt, items, queue, now>>

\* lines 199-211: parse_receipt_items, then predict_expiry for each item
ParseAndPredict ==
    /\ cur.pc = "parse"
    /\ LET parsed_items == parse_receipt_items(cur.text)
           predicted == PredictAll(parsed_items, receipts[cur.rid])
       IN  IF predicted.raised
           THEN cur' = [Raise(cur, predicted.exc) EXCEPT !.parsed = parsed_items]
           ELSE cur' = [cur EXCEPT !.pc = "save", !.parsed = parsed_items]
    /\ UNCHANGED <<receipts, nextReceipt, items, queue, now>>

\* line 214: save_parsing_results(receipt_id, enhanced_items)
SaveParsingResults(fault) ==
    /\ cur.pc = "save"
    /\ LET saved == save_parsing_results(receipts, cur.rid, cur.parsed, now)
       IN  /\ Len(items) + Len(saved.rows) <= MaxItems
           /\ IF fault
              THEN /\ cur' = Raise(cur, "storage")
                   /\ UNCHANGED items
              ELSE IF saved.raised
              THEN /\ cur' = Raise(cur, saved.exc)
                   /\ UNCHANGED items
              ELSE /\ items' = items \o saved.rows
                   /\ cur' = [cur EXCEPT !.pc = "set_completed", !.saved = TRUE,
                                         !.written = Len(saved.rows)]
    /\ UNCHANGED <<receipts, nextReceipt, queue, now>>

\* line 217: update_processing_status(receipt_id, "completed")
SetCompleted(fault) ==
    /\ cur.pc = "set_completed"
    /\ IF fault
       THEN /\ cur' = Raise(cur, "storage")
            /\ UNCHANGED receipts
       ELSE /\ receipts' = update_processing_status(receipts, cur.rid, "completed", now)
            /\ cur' = [cur EXCEPT !.pc = "done"]
    /\ UNCHANGED <<nextReceipt, items, queue, now>>

\* lines 219-222: except Exception: update_processing_status(receipt_id, "failed")
\* an exception raised here leaves the coroutine
Handler(fault) ==
    /\ cur.pc = "handler"
    /\ IF fault
       THEN /\ cur' = [cur EXCEPT !.pc = "escaped"]
            /\ UNCHANGED receipts
       ELSE /\ receipts' = update_processing_status(receipts, cur.rid, "failed", now)
            /\ cur' = [cur EXCEPT !.pc = "done"]
    /\ UNCHANGED <<nextReceipt, items, queue, now>>

\* the task is over; the event loop takes the next callback
Finish ==
    /\ cur.pc \in {"done", "escaped"}
    /\ cur' = Idle
    /\ UNCHANGED <<receipts, nextReceipt, items, queue, now>>

Tick ==
    /\ now < MaxTime
    /\ now' = now + 1
    /\ UNCHANGED <<receipts, nextReceipt, items, queue, cur>>

Next ==
    \/ \E user \in Users, file \in ImageIds : upload_receipt(user, file)
    \/ \E receipt_id \in ReceiptIds, user \in Users : reprocess_receipt(receipt_id, user)
    \/ \E receipt_id \in ReceiptIds, user \in Users : delete_receipt(receipt_id, user)
    \/ \E fault \in BOOLEAN : SetProcessing(fault)
    \/ \E fault \in BOOLEAN, ocr_error \in BOOLEAN : GetReceiptAndExtract(fault, ocr_error)
    \/ \E fault \in BOOLEAN : UpdateOcrText(fault)
    \/ ParseAndPredict
    \/ \E fault \in BOOLEAN : SaveParsingResults(fault)
    \/ \E fault \in BOOLEAN : SetCompleted(fault)
    \/ \E fault \in BOOLEAN : Handler(fault)
    \/ Finish
    \/ Tick

Spec == Init /\ [][Next]_vars


(***************************************************************************)
(* Properties of the receipt pipeline.                                     *)
(***************************************************************************)
\* the run in hand is over and its receipt still exists
RunOver == cur.pc \in {"done", "escaped"} /\ cur.rid \in DOMAIN receipts

\* no persistence call of the run in hand has raised
NoStorageFault == cur.exc # "storage"

\* the receipts present before and after a step
Kept == {r \in DOMAIN receipts : r \in DOMAIN receipts'}

\* the step belongs to a run that an explicit reprocess call started on r
ByReprocess(r) == cur'.origin = "reprocess" /\ cur'.rid = r

\* the changes of processing_status that the documented lifecycle allows
Lifecycle(r, s, t) ==
    \/ s = t
    \/ s = "pending" /\ t = "processing"
    \/ s = "processing" /\ t \in {"completed", "failed"}
    \/ s \in {"completed", "failed"} /\ ByReprocess(r) /\ ~(s = "failed" /\ t = "completed")

\* C1, as stated: processing_status changes only along pending -> processing
\* -> completed or pending -> processing -> failed; it never goes failed ->
\* completed, and it leaves completed or failed only in a run started by an
\* explicit reprocess call.
C1_AsStated ==
    [][\A r \in Kept :
          Lifecycle(r, receipts[r].processing_status, receipts'[r].processing_status)]_vars

\* C1, amended: the same lifecycle, with one more edge: when a run's write of
\* processing raises, the failure handler of that run takes the receipt from
\* pending straight to failed.
C1_Lifecycle ==
    [][\A r \in Kept :
          \/ Lifecycle(r, receipts[r].processing_status, receipts'[r].processing_status)
          \/ /\ receipts[r].processing_status = "pending"
             /\ receipts'[r].processing_status = "failed"
             /\ cur.pc = "handler" /\ cur.rid = r /\ cur.exc = "storage"]_vars

\* a reprocess run has taken a completed receipt through processing to completed
C1_Witness ==
    /\ RunOver /\ cur.origin = "reprocess" /\ cur.redo
    /\ receipts[cur.rid].processing_status = "completed"

C3_FailureLeavesFailed ==
    (RunOver /\ cur.exc # "none")
        => /\ receipts[cur.rid].processing_status = "failed"
           /\ cur.written = 0

C5_UnreadableImageFails ==
    (RunOver /\ ~Images[receipts[cur.rid].file].readable)
        => /\ receipts[cur.rid].processing_status = "failed"
           /\ cur.written = 0

\* C6: when extraction returns empty text with confidence 0, the later stages
\* still run: the text is stored, the parse finds nothing, and the run ends
\* with the receipt completed and no InventoryItem (no persistence call of
\* the run raising).
C6_EmptyTextCompletes ==
    (RunOver /\ cur.pc = "done" /\ NoStorageFault
        /\ cur.text = <<>> /\ cur.confidence.num = 0)
        => /\ receipts[cur.rid].processing_status = "completed"
           /\ receipts[cur.rid].ocr_text = Some(<<>>)
           /\ cur.parsed = <<>>
           /\ cur.written = 0
           /\ cur.exc = "none"

\* a run on a readable, blank image is over without any failure
C6_Witness ==
    /\ RunOver /\ cur.pc = "done" /\ cur.exc = "none" /\ ~cur.ocr_failed
    /\ cur.text = <<>> /\ cur.confidence.num = 0
    /\ receipts[cur.rid].processing_status = "completed"

C8_ViaPending ==
    [][\A r \in Kept :
          ~ /\ receipts[r].processing_status \in {"completed", "failed"}
            /\ receipts'[r].processing_status = "processing"]_vars

\* C9: every run that is over has left the receipt completed or failed, and
\* no exception has left the run.
C9_RunEndsSettled ==
    RunOver => /\ receipts[cur.rid].processing_status \in {"completed", "failed"}
               /\ cur.pc # "escaped"

\* C10: extract_text never raises; when preprocessing or the OCR engine fails
\* inside it, it returns empty text and confidence 0.
C10_ExtractNeverRaises ==
    /\ cur.exc # "ocr"
    /\ cur.ocr_failed => (cur.text = <<>> /\ cur.confidence = ZeroConfidence)

\* extraction has failed internally and the run goes on with its result
C10_Witness == cur.pc = "update_ocr_text" /\ cur.ocr_failed /\ cur.exc = "none"

(***************************************************************************)
(* MLService (backend/app/services/ml_service.py).                         *)
(*                                                                         *)
(* The shelf-life table in the order of the dict literal.  Confidences are *)
(* counted in tenths and added exactly.                                    *)
(***************************************************************************)
shelf_life_database ==
    <<
     [category |-> "dairy",
      entries |-> <<
           [name |-> <<"m", "i", "l", "k">>,
            days |-> [pantry |-> 1, refrigerator |-> 7, freezer |-> 90]],
           [name |-> <<"y", "o", "g", "u", "r", "t">>,
            days |-> [pantry |-> 1, refrigerator |-> 14, freezer |-> 60]],
           [name |-> <<"c", "h", "e", "e", "s", "e">>,
            days |-> [pantry |-> 1, refrigerator |-> 30, freezer |-> 180]],
           [name |-> <<"b", "u", "t", "t", "e", "r">>,
            days |-> [pantry |-> 2, refrigerator |-> 60, freezer |-> 365]],
           [name |-> <<"c", "r", "e", "a", "m">>,
            days |-> [pantry |-> 1, refrigerator |-> 10, freezer |-> 90]] >>],
     [category |-> "meat",
      entries |-> <<
           [name |-> <<"c", "h", "i", "c", "k", "e", "n">>,
            days |-> [pantry |-> 0, refrigerator |-> 2, freezer |-> 365]],
           [name |-> <<"b", "e", "e", "f">>,
            days |-> [pantry |-> 0, refrigerator |-> 3, freezer |-> 365]],
           [name |-> <<"p", "o", "r", "k">>,
            days |-> [pantry |-> 0, refrigerator |-> 3, freezer |-> 180]],
           [name |-> <<"f", "i", "s", "h">>,
            days |-> [pantry |-> 0, refrigerator |-> 2, freezer |-> 180]],
           [name |-> <<"g", "r", "o", "u", "n", "d", "_", "m", "e", "a", "t">>,
            days |-> [pantry |-> 0, refrigerator |-> 1, freezer |-> 120]] >>],
     [category |-> "vegetables",
      entries |-> <<
           [name |-> <<"l", "e", "t", "t", "u", "c", "e">>,
            days |-> [pantry |-> 1, refrigerator |-> 7, freezer |-> 30]],
           [name |-> <<"s", "p", "i", "n", "a", "c", "h">>,
            days |-> [pantry |-> 1, refrigerator |-> 5, freezer |-> 30]],
           [name |-> <<"c", "a", "r", "r", "o", "t", "s">>,
            days |-> [pantry |-> 3, refrigerator |-> 30, freezer |-> 365]],
           [name |-> <<"p", "o", "t", "a", "t", "o", "e", "s">>,
            days |-> [pantry |-> 30, refrigerator |-> 60, freezer |-> 365]],
           [name |-> <<"t", "o", "m", "a", "t", "o", "e", "s">>,
            days |-> [pantry |-> 7, refrigerator |-> 14, freezer |-> 90]],
           [name |-> <<"o", "n", "i", "o", "n", "s">>,
            days |-> [pantry |-> 30, refrigerator |-> 60, freezer |-> 180]] >>],
     [category |-> "fruits",
      entries |-> <<
           [name |-> <<"b", "a", "n", "a", "n", "a", "s">>,
            days |-> [pantry |-> 5, refrigerator |-> 7, freezer |-> 180]],
           [name |-> <<"a", "p", "p", "l", "e", "s">>,
            days |-> [pantry |-> 14, refrigerator |-> 60, freezer |-> 365]],
           [name |-> <<"o", "r", "a", "n", "g", "e", "s">>,
            days |-> [pantry |-> 7, refrigerator |-> 30, freezer |-> 365]],
           [name |-> <<"b", "e", "r", "r", "i", "e", "s">>,
            days |-> [pantry |-> 1, refrigerator |-> 7, freezer |-> 365]],
           [name |-> <<"g", "r", "a", "p", "e", "s">>,
            days |-> [pantry |-> 3, refrigerator |-> 14, freezer |-> 365]] >>],
     [category |-> "bakery",
      entries |-> <<
           [name |-> <<"b", "r", "e", "a", "d">>,
            days |-> [pantry |-> 3, refrigerator |-> 7, freezer |-> 90]],
           [name |-> <<"r", "o", "l", "l", "s">>,
            days |-> [pantry |-> 2, refrigerator |-> 5, freezer |-> 90]],
           [name |-> <<"b", "a", "g", "e", "l", "s">>,
            days |-> [pantry |-> 3, refrigerator |-> 7, freezer |-> 180]],
           [name |-> <<"c", "r", "o", "i", "s", "s", "a", "n", "t", "s">>,
            days |-> [pantry |-> 1, refrigerator |-> 3, freezer |-> 60]] >>],
     [category |-> "pantry",
      entries |-> <<
           [name |-> <<"p", "a", "s", "t", "a">>,
            days |-> [pantry |-> 730, refrigerator |-> 730, freezer |-> 730]],
           [name |-> <<"r", "i", "c", "e">>,
            days |-> [pantry |-> 1095, refrigerator |-> 1095, freezer |-> 1095]],
           [name |-> <<"b", "e", "a", "n", "s">>,
            days |-> [pantry |-> 365, refrigerator |-> 365, freezer |-> 365]],
           [name |-> <<"c", "e", "r", "e", "a", "l">>,
            days |-> [pantry |-> 180, refrigerator |-> 180, freezer |-> 180]],
           [name |-> <<"c", "r", "a", "c", "k", "e", "r", "s">>,
            days |-> [pantry |-> 90, refrigerator |-> 90, freezer |-> 90]] >>] >>

StorageLocations == {"pantry", "refrigerator", "freezer"}

\* category in self.shelf_life_database
InDatabase(category) ==
    \E k \in 1..Len(shelf_life_database) : shelf_life_database[k].category = category

\* self.shelf_life_database.get(category, {}), as the sequence of its entries
CategoryData(category) ==
    IF InDatabase(category)
    THEN shelf_life_database[CHOOSE k \in 1..Len(shelf_life_database) :
                                 shelf_life_database[k].category = category].entries
    ELSE <<>>

\* normalized_name in category_data
IsKey(normalized_name, category_data) ==
    \E e \in 1..Len(category_data) : category_data[e].name = normalized_name

\* _calculate_confidence returning the sum without min(1.0, ...)
_calculate_confidence_uncapped(category, brand, normalized_name, model) ==
    5 + (IF InDatabase(category) THEN 2 ELSE 0)
      + (IF IsKey(normalized_name, CategoryData(category)) THEN 3 ELSE 0)
      + (IF ~IsNone(brand) /\ Get(brand) # <<>> THEN 1 ELSE 0)
      + (IF model THEN 2 ELSE 0)

\* _calculate_confidence; brand is None or a str, model is bool(self.model)
_calculate_confidence(category, brand, normalized_name, model) ==
    LET sum == 5 + (IF InDatabase(category) THEN 2 ELSE 0)
                 + (IF IsKey(normalized_name, CategoryData(category)) THEN 3 ELSE 0)
                 + (IF ~IsNone(brand) /\ Get(brand) # <<>> THEN 1 ELSE 0)
                 + (IF model THEN 2 ELSE 0)
    IN  IF sum > 10 THEN 10 ELSE sum

\* \w of the re module, for the characters of the model
IsWordChar(c) ==
    \/ c \in DIGITS \/ c = "_"
    \/ \E i \in 1..Len(UPPER) : UPPER[i] = c \/ LOWER[i] = c

\* \b between s[p] and s[p + 1]
WordBoundary(s, p) ==
    (p >= 1 /\ p <= Len(s) /\ IsWordChar(s[p])) # (p + 1 <= Len(s) /\ IsWordChar(s[p + 1]))

\* \b(w)\b matches s at s[i + 1]
MatchesAt(s, i, w) ==
    /\ i + Len(w) <= Len(s)
    /\ SubSeq(s, i + 1, i + Len(w)) = w
    /\ WordBoundary(s, i)
    /\ WordBoundary(s, i + Len(w))

\* re.sub(r'\b(w1|w2|...)\b', '', s), from s[i + 1] on
RECURSIVE RemoveWords(_, _, _)
RemoveWords(s, i, alternatives) ==
    IF i >= Len(s) THEN <<>>
    ELSE LET hits == {k \in 1..Len(alternatives) : MatchesAt(s, i, alternatives[k])}
         IN  IF hits = {} THEN <<s[i + 1]>> \o RemoveWords(s, i + 1, alternatives)
             ELSE RemoveWords(s, i + Len(alternatives[CHOOSE k \in hits :
                                                          \A h \in hits : k <= h]),
                              alternatives)

descriptor_words ==
    << <<"o", "r", "g", "a", "n", "i", "c">>,
       <<"f", "r", "e", "s", "h">>,
       <<"f", "r", "o", "z", "e", "n">>,
       <<"c", "a", "n", "n", "e", "d">>,
       <<"w", "h", "o", "l", "e">>,
       <<"l", "o", "w", " ", "f", "a", "t">>,
       <<"f", "a", "t", " ", "f", "r", "e", "e">>,
       <<"2", "%">>,
       <<"s", "k", "i", "m">> >>

brand_patterns ==
    << <<"k", "r", "a", "f", "t">>,
       <<"n", "e", "s", "t", "l", "e">>,
       <<"p", "e", "p", "s", "i">>,
       <<"c", "o", "c", "a", " ", "c", "o", "l", "a">>,
       <<"k", "e", "l", "l", "o", "g", "s">>,
       <<"g", "e", "n", "e", "r", "a", "l", " ", "m", "i", "l", "l", "s">>,
       <<"u", "n", "i", "l", "e", "v", "e", "r">> >>

\* _normalize_product_name leaving the blanks as they are
_normalize_product_name_no_collapse(product_name) ==
    RemoveWords(RemoveWords(strip(lower(product_name)), 0, descriptor_words), 0, brand_patterns)

_normalize_product_name(product_name) ==
    LET normalized == strip(lower(product_name))
        plain == RemoveWords(RemoveWords(normalized, 0, descriptor_words), 0, brand_patterns)
    IN  strip(CollapseWhitespace(plain))

\* category_keywords of _determine_category, in the order of the dict literal
category_keywords ==
    << [category |-> "dairy",
        keywords |-> << <<"m", "i", "l", "k">>,
                       <<"c", "h", "e", "e", "s", "e">>,
                       <<"y", "o", "g", "u", "r", "t">>,
                       <<"b", "u", "t", "t", "e", "r">>,
                       <<"c", "r", "e", "a", "m">>,
                       <<"c", "o", "t", "t", "a", "g", "e", " ", "c", "h", "e", "e", "s", "e">> >>],
       [category |-> "meat",
        keywords |-> << <<"c", "h", "i", "c", "k", "e", "n">>,
                       <<"b", "e", "e", "f">>,
                       <<"p", "o", "r", "k">>,
                       <<"t", "u", "r", "k", "e", "y">>,
                       <<"f", "i", "s", "h">>,
                       <<"s", "a", "l", "m", "o", "n">>,
                       <<"t", "u", "n", "a">>,
                       <<"g", "r", "o", "u", "n", "d">> >>],
       [category |-> "vegetables",
        keywords |-> << <<"l", "e", "t", "t", "u", "c", "e">>,
                       <<"s", "p", "i", "n", "a", "c", "h">>,
                       <<"c", "a", "r", "r", "o", "t">>,
                       <<"b", "r", "o", "c", "c", "o", "l", "i">>,
                       <<"t", "o", "m", "a", "t", "o">>,
                       <<"p", "o", "t", "a", "t", "o">>,
                       <<"o", "n", "i", "o", "n">> >>],
       [category |-> "fruits",
        keywords |-> << <<"b", "a", "n", "a", "n", "a">>,
                       <<"a", "p", "p", "l", "e">>,
                       <<"o", "r", "a", "n", "g", "e">>,
                       <<"g", "r", "a", "p", "e">>,
                       <<"b", "e", "r", "r", "y">>,
                       <<"s", "t", "r", "a", "w", "b", "e", "r", "r", "y">>,
                       <<"b", "l", "u", "e", "b", "e", "r", "r", "y">> >>],
       [category |-> "bakery",
        keywords |-> << <<"b", "r", "e", "a", "d">>,
                       <<"r", "o", "l", "l">>,
                       <<"b", "a", "g", "e", "l">>,
                       <<"m", "u", "f", "f", "i", "n">>,
                       <<"c", "r", "o", "i", "s", "s", "a", "n", "t">>,
                       <<"b", "u", "n">> >>],
       [category |-> "pantry",
        keywords |-> << <<"p", "a", "s", "t", "a">>,
                       <<"r", "i", "c", "e">>,
                       <<"b", "e", "a", "n">>,
                       <<"c", "e", "r", "e", "a", "l">>,
                       <<"c", "r", "a", "c", "k", "e", "r">>,
                       <<"s", "o", "u", "p">>,
                       <<"s", "a", "u", "c", "e">> >>] >>

RECURSIVE FirstKeywordCategory(_, _)
FirstKeywordCategory(product_lower, k) ==
    IF k > Len(category_keywords) THEN "pantry"
    ELSE IF \E j \in 1..Len(category_keywords[k].keywords) :
                Contains(product_lower, category_keywords[k].keywords[j])
         THEN category_keywords[k].category
    ELSE FirstKeywordCategory(product_lower, k + 1)

_determine_category(product_name) == FirstKeywordCategory(lower(product_name), 1)

\* defaults of _get_shelf_life_from_database
defaults ==
    ("dairy" :> [pantry |-> 1, refrigerator |-> 7, freezer |-> 90])
    @@ ("meat" :> [pantry |-> 0, refrigerator |-> 2, freezer |-> 180])
    @@ ("vegetables" :> [pantry |-> 3, refrigerator |-> 14, freezer |-> 90])
    @@ ("fruits" :> [pantry |-> 5, refrigerator |-> 14, freezer |-> 180])
    @@ ("bakery" :> [pantry |-> 3, refrigerator |-> 7, freezer |-> 90])
    @@ ("pantry" :> [pantry |-> 365, refrigerator |-> 365, freezer |-> 365])

\* shelf_life.get(storage_location, 7)
DaysAt(days, storage_location) ==
    IF storage_location \in DOMAIN days THEN days[storage_location] ELSE 7

\* category.lower(), for the categories of the model
LowerCategory(category) == IF category = "Dairy" THEN "dairy" ELSE category

_get_shelf_life_from_database(normalized_name, category, storage_location) ==
    LET category_data == CategoryData(LowerCategory(category))
        exact == {e \in 1..Len(category_data) : category_data[e].name = normalized_name}
        fuzzy == {e \in 1..Len(category_data) :
                     \/ Contains(normalized_name, category_data[e].name)
                     \/ Contains(category_data[e].name, normalized_name)}
    IN  IF exact # {} THEN DaysAt(category_data[CHOOSE e \in exact : TRUE].days, storage_location)
        ELSE IF fuzzy # {}
        THEN DaysAt(category_data[CHOOSE e \in fuzzy : \A f \in fuzzy : e <= f].days,
                    storage_location)
        ELSE IF category \in DOMAIN defaults THEN DaysAt(defaults[category], storage_location)
        ELSE 7

\* brand is truthy
HasBrand(brand) == ~IsNone(brand) /\ Get(brand) # <<>>

\* _apply_ml_prediction; int() truncates
_apply_ml_prediction(product_name, category, brand, base_shelf_life) ==
    IF Contains(lower(product_name), <<"o", "r", "g", "a", "n", "i", "c">>)
    THEN (IF (base_shelf_life * 8) \div 10 < 1 THEN 1 ELSE (base_shelf_life * 8) \div 10)
    ELSE IF HasBrand(brand) /\ lower(Get(brand)) \in
                {<<"p", "r", "e", "m", "i", "u", "m">>,
                 <<"h", "i", "g", "h", " ", "q", "u", "a", "l", "i", "t", "y">>}
    THEN (base_shelf_life * 12) \div 10
    ELSE base_shelf_life

premium_brands ==
    << <<"o", "r", "g", "a", "n", "i", "c", " ", "v", "a", "l", "l", "e", "y">>,
       <<"w", "h", "o", "l", "e", " ", "f", "o", "o", "d", "s">>,
       <<"t", "r", "a", "d", "e", "r", " ", "j", "o", "e">>,
       <<"h", "o", "r", "i", "z", "o", "n">> >>

_apply_brand_adjustments(brand, category, shelf_life) ==
    IF ~HasBrand(brand) THEN shelf_life
    ELSE IF \E k \in 1..Len(premium_brands) : Contains(lower(Get(brand)), premium_brands[k])
    THEN (shelf_life * 11) \div 10
    ELSE shelf_life

\* the locals of predict_expiry when it reaches its return statement; dates
\* are counted in days, model is bool(self.model), today is datetime.now()
PredictionLocals(product_name, category, brand, purchase_date, storage_location, model, today) ==
    LET date == IF IsNone(purchase_date) THEN today ELSE Get(purchase_date)
        normalized_name == _normalize_product_name(product_name)
        cat == IF IsNone(category) THEN _determine_category(product_name) ELSE Get(category)
        base == _get_shelf_life_from_database(normalized_name, cat, storage_location)
        learned == IF model THEN _apply_ml_prediction(product_name, cat, brand, base) ELSE base
        shelf_life_days == _apply_brand_adjustments(brand, cat, learned)
    IN  [purchase_date |-> date,
         category |-> cat,
         normalized_name |-> normalized_name,
         shelf_life_days |-> shelf_life_days,
         predicted_expiry_date |-> date + shelf_life_days,
         confidence |-> _calculate_confidence(cat, brand, normalized_name, model)]

(***************************************************************************)
(* The services called one function at a time.  In the specifications      *)
(* below no receipt is uploaded; cur holds the call in hand: the function, *)
(* its argument and, once it has returned, its result.                     *)
(***************************************************************************)
MaxTokens == 3

\* an argument is handed to fn
Call(fn, arg) == [pc |-> "call", fn |-> fn, arg |-> arg, out |-> <<>>]

\* the call in hand returns out
Return(out) == [cur EXCEPT !.pc = "returned", !.out = out]

Returned(fn) == cur.pc = "returned" /\ cur.fn = fn

\* the tables are empty and stay so
NoPipeline ==
    /\ receipts = <<>>
    /\ nextReceipt = 1
    /\ items = <<>>
    /\ queue = <<>>
    /\ now = 0

\* words a receipt line is made of; the empty word gives leading, trailing
\* and repeated blanks
LineWords ==
    << <<>>,
       <<"2">>,
       <<"1", "2", "3", "4">>,
       <<"B", "A", "N", "A", "N", "A", "S">>,
       <<"M", "I", "L", "K">>,
       <<"a", "b">>,
       <<"1", ".", "9", "9">>,
       <<"$", "1", ".", "9", "9">>,
       <<"T", "O", "T", "A", "L">> >>

\* the lines of one to MaxTokens words
Lines ==
    UNION {{join([i \in 1..n |-> LineWords[ws[i]]]) : ws \in [1..n -> 1..Len(LineWords)]} :
              n \in 1..MaxTokens}

ParseCalls == {Call("parse_receipt_items", line) : line \in Lines}

\* parse_receipt_items(ocr_text) on a text of one line
CallParseReceiptItems ==
    /\ cur.pc = "call" /\ cur.fn = "parse_receipt_items"
    /\ cur' = Return(parse_receipt_items(cur.arg))
    /\ UNCHANGED <<receipts, nextReceipt, items, queue, now>>

ScenarioA == <<"2", " ", "B", "A", "N", "A", "N", "A", "S", " ", "1", ".", "9", "9">>

\* C11: a line with a noise keyword yields nothing; any other line yields the
\* candidate of the first rule that matches it, with that rule's name, price,
\* quantity token and confidence (0.9, 0.8, 0.5), and the category of the name;
\* "2 BANANAS 1.99" yields quantity "2", name BANANAS, price 1.99, confidence
\* 0.9 and category fruits.
C11_LineParserOutput ==
    Returned("parse_receipt_items") =>
        LET line == strip(cur.arg)
            info == _extract_item_info(line)
        IN  /\ _is_non_item_line(line) => cur.out = <<>>
            /\ (Len(line) >= 3 /\ ~_is_non_item_line(line) /\ ~IsNone(info)) =>
                   /\ Len(cur.out) = 1
                   /\ cur.out[1].name = Get(info).name
                   /\ cur.out[1].price = Get(info).price
                   /\ cur.out[1].category = Some(_categorize_item(Get(info).name))
                   /\ IsNone(cur.out[1].quantity) = IsNone(Get(info).quantity)
                   /\ ~IsNone(cur.out[1].quantity) =>
                          /\ Get(cur.out[1].quantity).t = "str"
                          /\ Get(cur.out[1].quantity).v = Get(Get(info).quantity).v
                   /\ HasAttr(cur.out[1], "confidence")
                   /\ cur.out[1]["confidence"] = Get(info).confidence
            /\ cur.arg = ScenarioA =>
                   /\ Len(cur.out) = 1
                   /\ cur.out[1].name = <<"B", "A", "N", "A", "N", "A", "S">>
                   /\ cur.out[1].price = Some(199)
                   /\ cur.out[1].category = Some("fruits")
                   /\ Get(cur.out[1].quantity).t = "str"
                   /\ Get(cur.out[1].quantity).v = <<"2">>
                   /\ HasAttr(cur.out[1], "confidence")
                   /\ cur.out[1]["confidence"] = Some(90)

(***************************************************************************)
(* The specification of the services called directly.                      *)
(***************************************************************************)
MaxWords == 3

\* words an item name is made of
NameWords ==
    << <<>>,
       <<"M", "i", "l", "k">>,
       <<"B", "R", "E", "A", "D">>,
       <<"a", "p", "p", "l", "e">>,
       <<"s", "o", "d", "a">>,
       <<"C", "A", "K", "E">>,
       <<"W", "h", "o", "l", "e", "s", "o", "m", "e">>,
       <<"F", "r", "e", "s", "h">>,
       <<"K", "r", "a", "f", "t">>,
       <<"2", "%">> >>

\* the names of one to MaxWords words
Names ==
    UNION {{join([i \in 1..n |-> NameWords[ws[i]]]) : ws \in [1..n -> 1..Len(NameWords)]} :
              n \in 1..MaxWords}

CategorizeCalls == {Call("_categorize_item", name) : name \in Names}

CallCategorizeItem ==
    /\ cur.pc = "call" /\ cur.fn = "_categorize_item"
    /\ cur' = Return(_categorize_item(cur.arg))
    /\ UNCHANGED <<receipts, nextReceipt, items, queue, now>>

\* the order in which the Categorizer's table is documented
CategoryOrder == <<"dairy", "meat", "vegetables", "fruits", "bakery", "pantry">>

\* the categories one of whose keywords is a substring of the lower-cased name
Matching(name) ==
    {k \in 1..Len(categories) :
        \E j \in 1..Len(categories[k].keywords) :
            Contains(lower(name), categories[k].keywords[j])}

\* C12: the Categorizer returns one category of the closed set: the first
\* category, in the order dairy, meat, vegetables, fruits, bakery, pantry, with
\* a keyword that is a substring of the lower-cased name, and pantry when none
\* matches; the result depends on the name alone.
C12_FirstMatchingCategory ==
    /\ [k \in 1..Len(categories) |-> categories[k].category] = CategoryOrder
    /\ Returned("_categorize_item") =>
           /\ cur.out \in {CategoryOrder[k] : k \in 1..Len(CategoryOrder)}
           /\ cur.out = IF Matching(cur.arg) = {} THEN "pantry"
                        ELSE CategoryOrder[CHOOSE k \in Matching(cur.arg) :
                                               \A h \in Matching(cur.arg) : k <= h]

\* a name with keywords of two categories has been categorized
C12_Witness ==
    /\ Returned("_categorize_item")
    /\ \E k, h \in Matching(cur.arg) : k # h

\* the categories, normalized names and brands the predictor is called with
CategoryValues == {"dairy", "fruits", "bakery", "snacks"}
NormalizedNames == {<<"m", "i", "l", "k">>, <<"b", "a", "n", "a", "n", "a", "s">>, <<"s", "o", "d", "a">>, <<"w", "h", "o", "l", "e", " ", "m", "i", "l", "k">>}
Brands == {NoneV, Some(<<>>), Some(<<"K", "r", "a", "f", "t">>)}

ConfidenceCalls ==
    {Call("_calculate_confidence",
          [category |-> c, brand |-> b, normalized_name |-> n, model |-> m]) :
        c \in CategoryValues, b \in Brands, n \in NormalizedNames, m \in BOOLEAN}

CallCalculateConfidence ==
    /\ cur.pc = "call" /\ cur.fn = "_calculate_confidence"
    /\ cur' = Return(_calculate_confidence(cur.arg.category, cur.arg.brand,
                                           cur.arg.normalized_name, cur.arg.model))
    /\ UNCHANGED <<receipts, nextReceipt, items, queue, now>>

\* the four signals of the documented confidence, in tenths
CategoryKnown(category) ==
    category \in {shelf_life_database[k].category : k \in 1..Len(shelf_life_database)}

ExactKey(category, name) ==
    \E k \in 1..Len(shelf_life_database) :
        /\ shelf_life_database[k].category = category
        /\ \E e \in 1..Len(shelf_life_database[k].entries) :
               shelf_life_database[k].entries[e].name = name

BrandSupplied(brand) == brand # NoneV /\ brand # Some(<<>>)

Signals(a) ==
    5 + (IF CategoryKnown(a.category) THEN 2 ELSE 0)
      + (IF ExactKey(a.category, a.normalized_name) THEN 3 ELSE 0)
      + (IF BrandSupplied(a.brand) THEN 1 ELSE 0)
      + (IF a.model THEN 2 ELSE 0)

\* C13: the confidence is min(1.0, 0.5 + 0.2 [category in the table] + 0.3
\* [normalized name an exact key of the category] + 0.1 [brand supplied] + 0.2
\* [model present]); it lies in [0, 1] and is 1.0 when all four signals are
\* present.
C13_Confidence ==
    Returned("_calculate_confidence") =>
        /\ cur.out = (IF Signals(cur.arg) > 10 THEN 10 ELSE Signals(cur.arg))
        /\ cur.out \in 0..10
        /\ (Signals(cur.arg) = 13) => cur.out = 10

\* the confidence of a call with all four signals has been computed
C13_Witness == Returned("_calculate_confidence") /\ Signals(cur.arg) = 13

NormalizeCalls == {Call("_normalize_product_name", name) : name \in Names}

CallNormalizeProductName ==
    /\ cur.pc = "call" /\ cur.fn = "_normalize_product_name"
    /\ cur' = Return(_normalize_product_name(cur.arg))
    /\ UNCHANGED <<receipts, nextReceipt, items, queue, now>>

\* w stands in s as a word of its own
OccursAsWord(s, w) ==
    \E i \in 0..(Len(s) - Len(w)) :
        /\ SubSeq(s, i + 1, i + Len(w)) = w
        /\ (i = 0 \/ ~IsWordChar(s[i]))
        /\ (i + Len(w) = Len(s) \/ ~IsWordChar(s[i + Len(w) + 1]))

\* the name holds a descriptor or a brand: as a word of its own, or anywhere
\* for "2%", which is no word
HasNoise(name) ==
    \/ \E k \in 1..Len(descriptor_words) : OccursAsWord(lower(name), descriptor_words[k])
    \/ \E k \in 1..Len(brand_patterns) : OccursAsWord(lower(name), brand_patterns[k])
    \/ Contains(lower(name), <<"2", "%">>)

\* C15: normalizing a name that holds no descriptor word and no brand token
\* returns the name lower-cased, without leading and trailing blanks and with
\* every inner run of blanks reduced to one space.
C15_NormalizeKeepsPlainNames ==
    (Returned("_normalize_product_name") /\ ~HasNoise(cur.arg))
        => cur.out = strip(CollapseWhitespace(lower(cur.arg)))

\* a plain name with capitals and a run of blanks has been normalized
C15_Witness ==
    /\ Returned("_normalize_product_name") /\ ~HasNoise(cur.arg)
    /\ lower(cur.arg) # cur.arg
    /\ \E i \in 1..(Len(cur.arg) - 2) :
           cur.arg[i] # " " /\ cur.arg[i + 1] = " " /\ cur.arg[i + 2] = " "

\* what predict_expiry is called with
ProductNames == {<<"M", "I", "L", "K">>, <<"O", "r", "g", "a", "n", "i", "c", " ", "M", "i", "l", "k">>, <<"B", "A", "N", "A", "N", "A", "S">>, <<"s", "o", "d", "a">>, <<>>}
PredictCategories == {NoneV, Some("dairy"), Some("Dairy"), Some("fruits"), Some("snacks")}
PredictBrands == {NoneV, Some(<<"K", "r", "a", "f", "t">>), Some(<<"H", "o", "r", "i", "z", "o", "n">>), Some(<<"P", "r", "e", "m", "i", "u", "m">>)}

PredictCalls ==
    {Call("predict_expiry",
          [product_name |-> n, category |-> c, brand |-> b, purchase_date |-> d,
           storage_location |-> s, model |-> m, today |-> t]) :
        n \in ProductNames, c \in PredictCategories, b \in PredictBrands,
        d \in {NoneV} \cup {Some(day) : day \in 0..MaxTime},
        s \in StorageLocations \cup {"fridge"}, m \in BOOLEAN, t \in {MaxTime}}

\* predict_expiry computes its locals and builds its response, which raises
\* or not as the pipeline's call does
CallPredictExpiry ==
    /\ cur.pc = "call" /\ cur.fn = "predict_expiry"
    /\ LET a == cur.arg
           response == predict_expiry(a.product_name, a.category, a.purchase_date)
       IN  cur' = Return([raised |-> response.raised, exc |-> response.exc,
                          locals |-> PredictionLocals(a.product_name, a.category, a.brand,
                                                      a.purchase_date, a.storage_location,
                                                      a.model, a.today)])
    /\ UNCHANGED <<receipts, nextReceipt, items, queue, now>>

\* C14: every call of the predictor yields a prediction, whose date is the
\* purchase date plus the estimated shelf life; for MILK in dairy, kept in
\* the refrigerator, with no brand and no model, the shelf life is the table's
\* 7 days and the confidence is 1.0.
C14_PredictionIsPurchasePlusShelfLife ==
    Returned("predict_expiry") =>
        /\ ~cur.out.raised
        /\ cur.out.locals.predicted_expiry_date
               = cur.out.locals.purchase_date + cur.out.locals.shelf_life_days
        /\ (/\ cur.arg.product_name = <<"M", "I", "L", "K">>
            /\ cur.arg.category = Some("dairy")
            /\ cur.arg.storage_location = "refrigerator"
            /\ cur.arg.brand = NoneV /\ ~cur.arg.model)
               => (cur.out.locals.shelf_life_days = 7 /\ cur.out.locals.confidence = 10)

\* what predict_expiry has computed when it builds its response
PredictionLocalsAsDocumented ==
    Returned("predict_expiry") =>
        /\ cur.out.locals.predicted_expiry_date
               = cur.out.locals.purchase_date + cur.out.locals.shelf_life_days
        /\ (/\ cur.arg.product_name = <<"M", "I", "L", "K">>
            /\ cur.arg.category = Some("dairy")
            /\ cur.arg.storage_location = "refrigerator"
            /\ cur.arg.brand = NoneV /\ ~cur.arg.model)
               => (cur.out.locals.shelf_life_days = 7 /\ cur.out.locals.confidence = 10)

ServiceCalls == ParseCalls \cup CategorizeCalls \cup ConfidenceCalls
                    \cup NormalizeCalls \cup PredictCalls

ServicesInit == NoPipeline /\ cur \in ServiceCalls

ServicesNext ==
    \/ CallParseReceiptItems
    \/ CallCategorizeItem
    \/ CallCalculateConfidence
    \/ CallNormalizeProductName
    \/ CallPredictExpiry

Services == ServicesInit /\ [][ServicesNext]_vars

(***************************************************************************)
(* InventoryService (backend/app/services/inventory_service.py), called on *)
(* an inventory table that already holds rows.  item_id is the position of *)
(* the row in the table.                                                   *)
(***************************************************************************)
ItemStatuses == {"fresh", "nearing", "expired", "used"}

\* the columns of a row that InventoryService reads or writes
InventoryRows ==
    [user_id : Users, status : ItemStatuses, notes : {NoneV}, last_updated : {0}]

InventoryTables == UNION {[1..n -> InventoryRows] : n \in 0..MaxItems}

\* InventoryItemUpdate: the declared fields; any other keyword is ignored
InventoryItemUpdateFields ==
    {"name", "category", "brand", "quantity", "unit", "predicted_expiry_date",
     "notes", "estimated_price", "storage_location"}

\* InventoryItemUpdate(**kwargs).dict(exclude_unset=True)
InventoryItemUpdate(kwargs) ==
    [f \in DOMAIN kwargs \cap InventoryItemUpdateFields |-> kwargs[f]]

\* get_inventory_item: the row of that id if the user owns it
get_inventory_item(table, item_id, user_id) ==
    IF item_id \in DOMAIN table /\ table[item_id].user_id = user_id
    THEN Some(item_id) ELSE NoneV

\* setattr(item, field, value) for every field of update_dict
SetFields(row, update_dict) ==
    [c \in DOMAIN row \cup DOMAIN update_dict |->
        IF c \in DOMAIN update_dict THEN update_dict[c] ELSE row[c]]

\* update_inventory_item: the table after the call and what the call returns
update_inventory_item(table, item_id, user_id, update_dict, t) ==
    IF IsNone(get_inventory_item(table, item_id, user_id))
    THEN [table |-> table, result |-> NoneV]
    ELSE [table |-> [table EXCEPT ![item_id] =
                        [SetFields(table[item_id], update_dict) EXCEPT !.last_updated = t]],
          result |-> Some(item_id)]

\* mark_item_as_used(item_id, user_id)
mark_item_as_used ==
    /\ cur.pc = "call" /\ cur.fn = "mark_item_as_used"
    /\ LET done == update_inventory_item(items, cur.arg.item_id, cur.arg.user_id,
                                         InventoryItemUpdate([status |-> "used"]), now)
       IN  /\ items' = done.table
           /\ cur' = Return(done.result)
    /\ UNCHANGED <<receipts, nextReceipt, queue, now>>

InventoryInit ==
    /\ receipts = <<>>
    /\ nextReceipt = 1
    /\ queue = <<>>
    /\ now = MaxTime
    /\ items \in InventoryTables
    /\ \E item_id \in 1..(MaxItems + 1), user_id \in Users :
           cur = Call("mark_item_as_used",
                      [item_id |-> item_id, user_id |-> user_id, before |-> items])

InventoryNext == mark_item_as_used

Inventory == InventoryInit /\ [][InventoryNext]_vars

\* C16: mark_item_as_used on an item that exists and belongs to the caller
\* leaves the item with status used; on an item that does not exist or
\* belongs to another user it returns None and changes nothing.
C16_MarkUsed ==
    Returned("mark_item_as_used") =>
        IF /\ cur.arg.item_id \in DOMAIN cur.arg.before
           /\ cur.arg.before[cur.arg.item_id].user_id = cur.arg.user_id
        THEN items[cur.arg.item_id].status = "used"
        ELSE cur.out = NoneV /\ items = cur.arg.before

(***************************************************************************)
(* The router on a database that already holds processed receipts and      *)
(* inventory items derived from them, with the inventory router's delete.  *)
(***************************************************************************)
\* a receipt processed earlier from a blank image
StoredReceipt(user_id) ==
    [create_receipt(user_id, 3, 0) EXCEPT !.processing_status = "completed",
                                          !.ocr_text = Some(<<>>)]

\* an inventory item derived earlier from that receipt
StoredItem(receipt_id, receipt) ==
    Row(receipt_id, receipt,
        ParsedReceiptItem([name |-> <<"M", "I", "L", "K">>, category |-> Some("dairy"),
                           price |-> Some(349)]), 0)

StoredInit ==
    /\ \E n \in 0..MaxReceipts, owner \in [1..MaxReceipts -> Users] :
           /\ receipts = [r \in 1..n |-> StoredReceipt(owner[r])]
           /\ nextReceipt = n + 1
           /\ \E k \in 0..MaxItems, of \in [1..MaxItems -> 1..MaxReceipts] :
                  /\ \A i \in 1..k : of[i] <= n
                  /\ items = [i \in 1..k |-> StoredItem(of[i], StoredReceipt(owner[of[i]]))]
    /\ queue = <<>>
    /\ cur = Idle
    /\ now = 0

\* DELETE /inventory/{item_id}: InventoryService.delete_inventory_item
delete_inventory_item(item_id, user) ==
    /\ cur.pc = "idle"
    /\ item_id \in DOMAIN items
    /\ items[item_id].user_id = user
    /\ items' = [i \in 1..(Len(items) - 1) |-> IF i < item_id THEN items[i] ELSE items[i + 1]]
    /\ UNCHANGED <<receipts, nextReceipt, queue, cur, now>>

StoredNext ==
    \/ \E user \in Users, file \in ImageIds : upload_receipt(user, file)
    \/ \E receipt_id \in ReceiptIds, user \in Users : reprocess_receipt(receipt_id, user)
    \/ \E receipt_id \in ReceiptIds, user \in Users : delete_receipt(receipt_id, user)
    \/ \E item_id \in 1..MaxItems, user \in Users : delete_inventory_item(item_id, user)
    \/ \E fault \in BOOLEAN : SetProcessing(fault)
    \/ \E fault \in BOOLEAN, ocr_error \in BOOLEAN : GetReceiptAndExtract(fault, ocr_error)
    \/ \E fault \in BOOLEAN : UpdateOcrText(fault)
    \/ ParseAndPredict
    \/ \E fault \in BOOLEAN : SaveParsingResults(fault)
    \/ \E fault \in BOOLEAN : SetCompleted(fault)
    \/ \E fault \in BOOLEAN : Handler(fault)
    \/ Finish

Stored == StoredInit /\ [][StoredNext]_vars

\* the rows of a table that reference receipt r
Derived(table, r) == {i \in DOMAIN table : table[i].receipt_id = r}

Cardinal(S) == Cardinality(S)

\* the step is a successful delete_receipt of r by its owner
DeletesReceipt(r) == \E user \in Users : delete_receipt(r, user)

\* the step is the owner's delete of one inventory item
DeletesItem == \E item_id \in DOMAIN items, user \in Users : delete_inventory_item(item_id, user)

ReceiveReprocess(receipt_id, user) ==
    /\ Len(queue) < MaxQueue
    /\ queue' = Append(queue, [rid |-> receipt_id, origin |-> "request", user |-> user])
    /\ UNCHANGED <<receipts, nextReceipt, items, cur, now>>

\* the handler of a received request run on a thread of its own, together with
\* the first write of the run it starts
HandleReprocess_InThread ==
    /\ queue # <<>>
    /\ Head(queue).origin = "request"
    /\ LET request == Head(queue)
       IN  IF /\ request.rid \in DOMAIN receipts
              /\ receipts[request.rid].user_id = request.user
           THEN /\ receipts' = update_processing_status(receipts, request.rid, "processing", now)
                /\ queue' = Append(Tail(queue), [rid |-> request.rid, origin |-> "reprocess"])
           ELSE /\ queue' = Tail(queue)
                /\ UNCHANGED receipts
    /\ UNCHANGED <<nextReceipt, items, cur, now>>

\* reprocess_receipt called by the loop: 404 for a receipt that is not the
\* caller's, else create_task
HandleReprocess ==
    /\ cur.pc = "idle"
    /\ queue # <<>>
    /\ Head(queue).origin = "request"
    /\ LET request == Head(queue)
       IN  IF /\ request.rid \in DOMAIN receipts
              /\ receipts[request.rid].user_id = request.user
           THEN queue' = Append(Tail(queue), [rid |-> request.rid, origin |-> "reprocess"])
           ELSE queue' = Tail(queue)
    /\ UNCHANGED <<receipts, nextReceipt, items, cur, now>>

\* the loop takes a task: the run begins
StartTask(fault) ==
    /\ queue # <<>>
    /\ Head(queue).origin # "request"
    /\ SetProcessing(fault)

RequestsNext ==
    \/ \E user \in Users, file \in ImageIds : upload_receipt(user, file)
    \/ \E receipt_id \in ReceiptIds, user \in Users : ReceiveReprocess(receipt_id, user)
    \/ HandleReprocess
    \/ \E receipt_id \in ReceiptIds, user \in Users : delete_receipt(receipt_id, user)
    \/ \E fault \in BOOLEAN : StartTask(fault)
    \/ \E fault \in BOOLEAN, ocr_error \in BOOLEAN : GetReceiptAndExtract(fault, ocr_error)
    \/ \E fault \in BOOLEAN : UpdateOcrText(fault)
    \/ ParseAndPredict
    \/ \E fault \in BOOLEAN : SaveParsingResults(fault)
    \/ \E fault \in BOOLEAN : SetCompleted(fault)
    \/ \E fault \in BOOLEAN : Handler(fault)
    \/ Finish

Requests == Init /\ [][RequestsNext]_vars

\* a run for receipt r is between its first status write and its last
InFlight(r) ==
    /\ cur.rid = r
    /\ cur.pc \in {"get_receipt", "update_ocr_text", "parse", "save", "set_completed", "handler"}

\* what the runs for receipt r write: its status, its text, its items
Written(rs, table, r) ==
    <<IF r \in DOMAIN rs THEN <<rs[r].processing_status, rs[r].ocr_text>> ELSE <<>>,
      SelectSeq(table, LAMBDA row : row.receipt_id = r)>>

\* C18: while a run for a receipt is in flight no second run for that receipt
\* starts, and whatever is written of the receipt (status, text, items) is
\* written by a step of that run, also when a reprocess request for the same
\* receipt arrives in the meantime.
C18_OneRunInFlight ==
    [][\A r \in ReceiptIds :
          InFlight(r) =>
              /\ cur'.rid = r
              /\ Written(receipts', items', r) # Written(receipts, items, r)
                     => cur'.pc # cur.pc]_vars

\* a reprocess request of the owner has arrived while the run for the same
\* receipt has written processing and not yet its terminal status
C18_Witness ==
    \E r \in DOMAIN receipts :
        /\ InFlight(r)
        /\ receipts[r].processing_status = "processing"
        /\ queue # <<>>
        /\ Head(queue) = [rid |-> r, origin |-> "request", user |-> receipts[r].user_id]

(***************************************************************************)
(* Runs for different receipts with their steps interleaved in any order,  *)
(* as on several workers that share the database.  cur is the run that     *)
(* takes the next step and queue holds the other runs, each where it       *)
(* stopped; the orders of the single event loop, one run after the other,  *)
(* are among the interleavings.                                            *)
(***************************************************************************)
\* the two receipts of the claim, each uploaded and not yet processed
InterleavedInit ==
    /\ \E owner \in [{1, 2} -> Users], file \in [{1, 2} -> ImageIds] :
           receipts = [r \in {1, 2} |-> create_receipt(owner[r], file[r], 0)]
    /\ nextReceipt = 3
    /\ items = <<>>
    /\ cur = NewRun([rid |-> 1, origin |-> "upload"], receipts)
    /\ queue = <<NewRun([rid |-> 2, origin |-> "upload"], receipts)>>
    /\ now = 0

\* another run takes the next step
Switch(i) ==
    /\ i \in DOMAIN queue
    /\ cur' = queue[i]
    /\ queue' = [queue EXCEPT ![i] = cur]
    /\ UNCHANGED <<receipts, nextReceipt, items, now>>

\* line 187 for the run at hand: update_processing_status(receipt_id, "processing")
Begin(fault) ==
    /\ cur.pc = "idle"
    /\ cur.rid # 0
    /\ IF fault
       THEN /\ cur' = Raise(cur, "storage")
            /\ UNCHANGED receipts
       ELSE /\ receipts' = update_processing_status(receipts, cur.rid, "processing", now)
            /\ cur' = [cur EXCEPT !.pc = "get_receipt"]
    /\ UNCHANGED <<nextReceipt, items, queue, now>>

InterleavedNext ==
    \/ \E i \in DOMAIN queue : Switch(i)
    \/ \E fault \in BOOLEAN : Begin(fault)
    \/ \E fault \in BOOLEAN, ocr_error \in BOOLEAN : GetReceiptAndExtract(fault, ocr_error)
    \/ \E fault \in BOOLEAN : UpdateOcrText(fault)
    \/ ParseAndPredict
    \/ \E fault \in BOOLEAN : SaveParsingResults(fault)
    \/ \E fault \in BOOLEAN : SetCompleted(fault)
    \/ \E fault \in BOOLEAN : Handler(fault)

Interleaved == InterleavedInit /\ [][InterleavedNext]_vars

\* which calls of a run fail
Choices ==
    [processing : BOOLEAN, get : BOOLEAN, text : BOOLEAN, save : BOOLEAN,
     completed : BOOLEAN, handler : BOOLEAN]

\* process_receipt_async run from its first line to its last on a database
\* that holds this receipt only: what it leaves of the receipt.  c: the calls
\* that fail; ocr_error: Tesseract fails.
process_receipt_alone(receipt_id, receipt, ocr_error, t) ==
    LET rs0 == [r \in {receipt_id} |-> receipt]
        rs1 == update_processing_status(rs0, receipt_id, "processing", t)
        ocr_result == extract_text(Images[receipt.file], ocr_error)
        rs2 == update_ocr_text(rs1, receipt_id, ocr_result.text)
        parsed_items == parse_receipt_items(ocr_result.text)
        predicted == PredictAll(parsed_items, receipt).raised
        saved == save_parsing_results(rs2, receipt_id, parsed_items, t)
        Except(rs, c) == IF c.handler THEN rs
                         ELSE update_processing_status(rs, receipt_id, "failed", t)
        end(c) == IF c.processing THEN <<Except(rs0, c), <<>>>>
                  ELSE IF c.get \/ c.text THEN <<Except(rs1, c), <<>>>>
                  ELSE IF predicted THEN <<Except(rs2, c), <<>>>>
                  ELSE IF c.save \/ saved.raised THEN <<Except(rs2, c), <<>>>>
                  ELSE IF c.completed THEN <<Except(rs2, c), saved.rows>>
                  ELSE <<update_processing_status(rs2, receipt_id, "completed", t), saved.rows>>
    IN  {Written(end(c)[1], end(c)[2], receipt_id) : c \in Choices}

\* the runs, each with its position
Runs == {cur} \cup {queue[i] : i \in DOMAIN queue}

\* the receipt as upload_receipt created it
AsUploaded(receipt) == create_receipt(receipt.user_id, receipt.file, receipt.created_at)

\* C19: however the steps of the runs for different receipts interleave, a
\* run that is over leaves of its receipt (status, ocr_text, inventory items)
\* what a run executed alone on that receipt leaves.
C19_AsRunAlone ==
    \A run \in Runs :
        run.pc \in {"done", "escaped"} =>
            \E ocr_error \in BOOLEAN :
                Written(receipts, items, run.rid) \in
                    process_receipt_alone(run.rid, AsUploaded(receipts[run.rid]), ocr_error, now)

\* the run of a receipt with a blank image is over and completed while the
\* run of a receipt with a priced line has written its text and not ended
C19_Witness ==
    \E a \in Runs, b \in Runs :
        /\ a.rid # b.rid
        /\ a.pc = "done"
        /\ receipts[a.rid].processing_status = "completed"
        /\ b.pc = "parse"
        /\ receipts[b.rid].ocr_text # NoneV
        /\ receipts[b.rid].ocr_text # receipts[a.rid].ocr_text

(***************************************************************************)
(* The name-only fallback of the line parser.                              *)
(***************************************************************************)
\* the line is a number: digits, with or without one decimal point
IsNumber(line) ==
    /\ \E i \in 1..Len(line) : line[i] \in DIGITS
    /\ \A i \in 1..Len(line) : line[i] \in DIGITS \cup {"."}
    /\ \A i \in 1..Len(line), j \in 1..Len(line) : (line[i] = "." /\ line[j] = ".") => i = j

\* none of the three price patterns matches the line
NoPricePattern(line) == ~Pattern1(line) /\ ~Pattern2(line) /\ ~Pattern3(line)

\* parse_receipt_items returned one candidate that has a name and no price
NameOnlyCandidate(out, line) ==
    /\ Len(out) = 1
    /\ out[1].name = line
    /\ IsNone(out[1].price)

\* C20: a line that is not noise and matches no price pattern yields a
\* name-only candidate (no price; confidence 0.5 in the parser's dict) exactly
\* when it is not a number and longer than 3 characters; a line that is only a
\* number, with or without a decimal point, yields no candidate; a line that
\* is not a number and longer than 3 characters yields a candidate.
C20_NameOnlyFallback ==
    Returned("parse_receipt_items") =>
        LET line == strip(cur.arg)
        IN  (Len(line) >= 3 /\ ~_is_non_item_line(line) /\ NoPricePattern(line)) =>
                /\ NameOnlyCandidate(cur.out, line) <=> (~IsNumber(line) /\ Len(line) > 3)
                /\ NameOnlyCandidate(cur.out, line) =>
                       Get(_extract_item_info(line)).confidence = Some(50)
                /\ IsNumber(line) => cur.out = <<>>
                /\ (~IsNumber(line) /\ Len(line) > 3) => Len(cur.out) = 1

\* the fallback as the code has it: a candidate exactly when the line is
\* longer than 3 characters and not made of digits only
C20_FallbackOfTheCode ==
    Returned("parse_receipt_items") =>
        LET line == strip(cur.arg)
        IN  (Len(line) >= 3 /\ ~_is_non_item_line(line) /\ NoPricePattern(line)) =>
                /\ NameOnlyCandidate(cur.out, line) <=> (~isdigit(line) /\ Len(line) > 3)
                /\ ~NameOnlyCandidate(cur.out, line) => cur.out = <<>>

(***************************************************************************)
(* MLService and OCRService, one function at a time: cur holds the call in *)
(* hand as in Services.                                                    *)
(***************************************************************************)
\* names as _normalize_product_name returns them; the empty one is what is
\* left of "Organic", "Fresh" or "2%"
LookupNames ==
    {<<>>, <<"m", "i", "l", "k">>, <<"w", "h", "o", "l", "e", " ", "m", "i", "l", "k">>,
     <<"m", "i", "l">>, <<"b", "a", "n", "a", "n", "a", "s">>, <<"s", "o", "d", "a">>,
     <<"f", "i", "s", "h">>}

LookupCategories == {"dairy", "Dairy", "fruits", "meat", "snacks"}

LookupCalls ==
    {Call("_get_shelf_life_from_database",
          [normalized_name |-> n, category |-> c, storage_location |-> s]) :
        n \in LookupNames, c \in LookupCategories, s \in StorageLocations \cup {"fridge"}}

CallGetShelfLifeFromDatabase ==
    /\ cur.pc = "call" /\ cur.fn = "_get_shelf_life_from_database"
    /\ cur' = Return(_get_shelf_life_from_database(cur.arg.normalized_name, cur.arg.category,
                                                   cur.arg.storage_location))
    /\ UNCHANGED <<receipts, nextReceipt, items, queue, now>>

\* the entries of the category whose key is in the name or holds the name
SubstringEntries(normalized_name, category_data) ==
    {e \in 1..Len(category_data) :
        \/ Contains(normalized_name, category_data[e].name)
        \/ Contains(category_data[e].name, normalized_name)}

\* the fixed default of a category and a storage location
DefaultDays(category, storage_location) ==
    IF category \in DOMAIN defaults THEN DaysAt(defaults[category], storage_location) ELSE 7

\* C21: the lookup returns the entry of the exact key when the name is a key
\* of the category; else the entry of a key that is a substring of the name or
\* holds the name; else the default of the category and the storage location.
\* An empty name, or an unknown category, gets the default and no table entry.
C21_ShelfLifeLookup ==
    Returned("_get_shelf_life_from_database") =>
        LET name == cur.arg.normalized_name
            category == LowerCategory(cur.arg.category)
            data == CategoryData(category)
            at == cur.arg.storage_location
            near == SubstringEntries(name, data)
        IN  /\ IsKey(name, data) =>
                   \E e \in 1..Len(data) : data[e].name = name /\ cur.out = DaysAt(data[e].days, at)
            /\ (~IsKey(name, data) /\ name # <<>> /\ near # {}) =>
                   \E e \in near : cur.out = DaysAt(data[e].days, at)
            /\ (name = <<>> \/ ~InDatabase(category) \/ near = {}) =>
                   cur.out = DefaultDays(category, at)

\* the lookup apart from the empty name and from a category not in lower case
C21_LookupOfNamedItems ==
    (Returned("_get_shelf_life_from_database") /\ cur.arg.normalized_name # <<>>
        /\ cur.arg.category = LowerCategory(cur.arg.category)) => C21_ShelfLifeLookup

\* the empty name is given the first entry of its category
C21_EmptyNameTakesFirstEntry ==
    (Returned("_get_shelf_life_from_database") /\ cur.arg.normalized_name = <<>>
        /\ InDatabase(LowerCategory(cur.arg.category))) =>
            cur.out = DaysAt(CategoryData(LowerCategory(cur.arg.category))[1].days,
                             cur.arg.storage_location)


\* predict_expiry, lines 109-119: the looked-up value through the model's
\* adjustment, when a model was loaded, and the brand's
estimated_shelf_life_days(product_name, category, brand, base, model) ==
    _apply_brand_adjustments(brand, category,
        IF model THEN _apply_ml_prediction(product_name, category, brand, base) ELSE base)

AdjustNames == {<<"M", "I", "L", "K">>, <<"O", "r", "g", "a", "n", "i", "c", " ", "M", "i", "l", "k">>}

AdjustBrands ==
    {NoneV, Some(<<>>), Some(<<"K", "r", "a", "f", "t">>), Some(<<"H", "o", "r", "i", "z", "o", "n">>),
     Some(<<"O", "r", "g", "a", "n", "i", "c", " ", "V", "a", "l", "l", "e", "y">>),
     Some(<<"P", "r", "e", "m", "i", "u", "m">>)}

\* values of the shelf-life table and of the defaults
BaseDays == {0, 1, 2, 7, 10, 14, 30, 365}

AdjustCalls ==
    {Call("estimated_shelf_life_days",
          [product_name |-> n, category |-> "dairy", brand |-> b, base |-> d, model |-> m]) :
        n \in AdjustNames, b \in AdjustBrands, d \in BaseDays, m \in BOOLEAN}

CallEstimatedShelfLifeDays ==
    /\ cur.pc = "call" /\ cur.fn = "estimated_shelf_life_days"
    /\ cur' = Return(estimated_shelf_life_days(cur.arg.product_name, cur.arg.category,
                                               cur.arg.brand, cur.arg.base, cur.arg.model))
    /\ UNCHANGED <<receipts, nextReceipt, items, queue, now>>

\* the brand holds one of the recognized premium-brand substrings
RecognizedPremium(brand) ==
    /\ HasBrand(brand)
    /\ \E k \in 1..Len(premium_brands) : Contains(lower(Get(brand)), premium_brands[k])

Organic(product_name) == Contains(lower(product_name), <<"o", "r", "g", "a", "n", "i", "c">>)

\* max(1, floor(0.8 * base))
OrganicDays(base) == IF (8 * base) \div 10 < 1 THEN 1 ELSE (8 * base) \div 10

\* the value the brand multiplier is applied to
BeforeBrand(arg) ==
    IF arg.model /\ Organic(arg.product_name) THEN OrganicDays(arg.base) ELSE arg.base

\* the adjustments without the claim that a premium brand lengthens
ShelfLifeAdjusted(arg, out) ==
    /\ (~arg.model /\ ~RecognizedPremium(arg.brand)) => out = arg.base
    /\ (arg.model /\ Organic(arg.product_name) /\ ~RecognizedPremium(arg.brand))
           => out = OrganicDays(arg.base)
    /\ RecognizedPremium(arg.brand) => out = (11 * BeforeBrand(arg)) \div 10

\* C22: without a model and without a recognized premium brand the estimate
\* is the base value; with a model and 'organic' in the name it is
\* max(1, floor(0.8 * base)); a recognized premium brand then multiplies by
\* 1.1, rounded down, and so strictly lengthens every positive shelf life.
C22_ShelfLifeAdjustment ==
    Returned("estimated_shelf_life_days") =>
        /\ ShelfLifeAdjusted(cur.arg, cur.out)
        /\ (RecognizedPremium(cur.arg.brand) /\ BeforeBrand(cur.arg) > 0)
               => cur.out > BeforeBrand(cur.arg)

\* the adjustments as computed; a premium brand lengthens from 10 days on
C22_AdjustmentAsComputed ==
    Returned("estimated_shelf_life_days") =>
        /\ ShelfLifeAdjusted(cur.arg, cur.out)
        /\ RecognizedPremium(cur.arg.brand) =>
               /\ cur.out >= BeforeBrand(cur.arg)
               /\ cur.out > BeforeBrand(cur.arg) <=> BeforeBrand(cur.arg) >= 10


\* the longest token list handed to extract_text
MaxOcrTokens == 2

\* what pytesseract.image_to_data reports for one box: its text, its confidence
OcrTokens ==
    {[text |-> t, conf |-> c] :
        t \in {<<>>, <<"M", "I", "L", "K">>, <<"3", ".", "4", "9">>, <<"2", "O">>,
               <<"T", "O", "T", "A", "L">>},
        c \in {0, 29, 30, 31, 95}}

ExtractCalls ==
    {Call("extract_text", [readable |-> TRUE, data |-> d]) :
        d \in UNION {[1..n -> OcrTokens] : n \in 0..MaxOcrTokens}}

\* extract_text on an image that loads, Tesseract reporting cur.arg.data
CallExtractText ==
    /\ cur.pc = "call" /\ cur.fn = "extract_text"
    /\ cur' = Return(extract_text(cur.arg, FALSE))
    /\ UNCHANGED <<receipts, nextReceipt, items, queue, now>>

\* the texts, in order, of the non-empty tokens whose confidence is at least min
TokensFrom(data, min) ==
    LET kept == SelectSeq(data, LAMBDA d : d.conf >= min /\ strip(d.text) # <<>>)
    IN  [i \in 1..Len(kept) |-> strip(kept[i].text)]

\* the confidence is the mean of the confidences above zero, over 100
MeanOfPositive(data, confidence) ==
    LET positive == SelectSeq(data, LAMBDA d : d.conf > 0)
    IN  /\ 0 <= confidence.num /\ confidence.num <= confidence.den /\ confidence.den > 0
        /\ IF positive = <<>> THEN confidence.num = 0
           ELSE confidence.num * 100 * Len(positive) = SumPositive(data) * confidence.den

\* C23: the extracted text is the join, in order, of exactly the non-empty
\* tokens whose confidence is not below 30; the confidence is the mean of all
\* token confidences above zero divided by 100, within [0,1], and 0 when no
\* token has a positive confidence.
C23_TextAndConfidence ==
    Returned("extract_text") =>
        /\ cur.out.text = join(TokensFrom(cur.arg.data, 30))
        /\ MeanOfPositive(cur.arg.data, cur.out.confidence)

\* no token holds a letter O next to a digit
NoLetterO(data) == \A i \in 1..Len(data) : data[i].text # <<"2", "O">>

\* what the code extracts: the tokens with a confidence above 30, and O read
\* as 0 beside a digit
C23_AsExtracted ==
    Returned("extract_text") =>
        /\ NoLetterO(cur.arg.data) => cur.out.text = join(TokensFrom(cur.arg.data, 31))
        /\ MeanOfPositive(cur.arg.data, cur.out.confidence)


\* process_receipt_async, lines 199-214, on the text of a receipt: the rows
\* the run adds to inventory_items
RowsOfRun(text) ==
    LET receipt == create_receipt("u1", 1, 0)
        parsed_items == parse_receipt_items(text)
        saved == save_parsing_results([r \in {1} |-> receipt], 1, parsed_items, 0)
    IN  IF PredictAll(parsed_items, receipt).raised \/ saved.raised THEN <<>>
        ELSE saved.rows

\* C25: the text extract_text returns holds no line break, so the parser sees
\* one line of it and a run persists at most one InventoryItem for the
\* receipt, and none when the line holds a noise keyword.
C25_OneLineOneItem ==
    Returned("extract_text") =>
        /\ \A i \in 1..Len(cur.out.text) : cur.out.text[i] \notin {"\n", "\r"}
        /\ Len(split_lines(cur.out.text)) = 1
        /\ Len(parse_receipt_items(cur.out.text)) <= 1
        /\ Len(RowsOfRun(cur.out.text)) <= 1
        /\ _is_non_item_line(cur.out.text) =>
               (parse_receipt_items(cur.out.text) = <<>> /\ RowsOfRun(cur.out.text) = <<>>)

\* two tokens were kept and the parser made one candidate of their line
C25_Witness ==
    /\ Returned("extract_text")
    /\ cur.out.text = <<"M", "I", "L", "K", " ", "3", ".", "4", "9">>
    /\ Len(parse_receipt_items(cur.out.text)) = 1

FunctionCalls == LookupCalls \cup AdjustCalls \cup ExtractCalls

FunctionsInit == NoPipeline /\ cur \in FunctionCalls

FunctionsNext ==
    \/ CallGetShelfLifeFromDatabase
    \/ CallEstimatedShelfLifeDays
    \/ CallExtractText

Functions == FunctionsInit /\ [][FunctionsNext]_vars

(***************************************************************************)
(* InventoryService.update_item_statuses on a table that holds items of    *)
(* every status.  Dates are counted in days; now is datetime.utcnow().     *)
(* cur keeps the table and the time of the last sweep.                     *)
(***************************************************************************)
\* timedelta(days=3)
three_days == 3

\* predicted_expiry_date is nullable
SweepRows ==
    [status : ItemStatuses,
     predicted_expiry_date : {NoneV} \cup {Some(d) : d \in 0..(MaxTime + three_days + 1)}]

SweepTables == UNION {[1..n -> SweepRows] : n \in 0..MaxItems}

\* the first UPDATE: expired where predicted_expiry_date < now and status fresh.
\* A comparison with NULL selects nothing.
MarkExpired(table, t) ==
    [i \in DOMAIN table |->
        IF /\ ~IsNone(table[i].predicted_expiry_date)
           /\ Get(table[i].predicted_expiry_date) < t
           /\ table[i].status = "fresh"
        THEN [table[i] EXCEPT !.status = "expired"] ELSE table[i]]

\* the first UPDATE without its filter on the status
MarkExpired_AnyStatus(table, t) ==
    [i \in DOMAIN table |->
        IF /\ ~IsNone(table[i].predicted_expiry_date)
           /\ Get(table[i].predicted_expiry_date) < t
        THEN [table[i] EXCEPT !.status = "expired"] ELSE table[i]]

\* the second UPDATE: nearing where now <= predicted_expiry_date <= now + 3 days
\* and status fresh
MarkNearing(table, t) ==
    [i \in DOMAIN table |->
        IF /\ ~IsNone(table[i].predicted_expiry_date)
           /\ Get(table[i].predicted_expiry_date) <= t + three_days
           /\ Get(table[i].predicted_expiry_date) >= t
           /\ table[i].status = "fresh"
        THEN [table[i] EXCEPT !.status = "nearing"] ELSE table[i]]

\* the sweep committing after its first UPDATE and losing the second
update_item_statuses_first_only ==
    /\ items' = MarkExpired(items, now)
    /\ cur' = [Return(NoneV) EXCEPT !.arg = [before |-> items, at |-> now]]
    /\ UNCHANGED <<receipts, nextReceipt, queue, now>>

\* the sweep whose first UPDATE does not look at the status
update_item_statuses_any_status ==
    /\ items' = MarkNearing(MarkExpired_AnyStatus(items, now), now)
    /\ cur' = [Return(NoneV) EXCEPT !.arg = [before |-> items, at |-> now]]
    /\ UNCHANGED <<receipts, nextReceipt, queue, now>>

\* update_item_statuses: both UPDATEs, then the one commit
update_item_statuses ==
    /\ items' = MarkNearing(MarkExpired(items, now), now)
    /\ cur' = [Return(NoneV) EXCEPT !.arg = [before |-> items, at |-> now]]
    /\ UNCHANGED <<receipts, nextReceipt, queue, now>>

SweepsInit ==
    /\ receipts = <<>>
    /\ nextReceipt = 1
    /\ queue = <<>>
    /\ now = 0
    /\ items \in SweepTables
    /\ cur = Call("update_item_statuses", [before |-> items, at |-> 0])

SweepsNext ==
    \/ update_item_statuses
    \/ Tick

Sweeps == SweepsInit /\ [][SweepsNext]_vars

\* item i was fresh and its predicted expiry lies in [from, to]
FreshWithin(table, i, from, to) ==
    /\ table[i].status = "fresh"
    /\ ~IsNone(table[i].predicted_expiry_date)
    /\ from <= Get(table[i].predicted_expiry_date)
    /\ Get(table[i].predicted_expiry_date) <= to

\* C24: one sweep at time now leaves expired every item that was fresh with a
\* predicted expiry before now, and nearing every item that was fresh with a
\* predicted expiry in [now, now + 3 days], both in the one step that
\* commits; a second sweep at the same now changes nothing.
C24_SweepOnce ==
    [][update_item_statuses =>
          /\ \A i \in DOMAIN items :
                /\ FreshWithin(items, i, 0, now - 1) => items'[i].status = "expired"
                /\ FreshWithin(items, i, now, now + three_days) => items'[i].status = "nearing"
          /\ DOMAIN items' = DOMAIN items
          /\ (Returned("update_item_statuses") /\ cur.arg.at = now) => items' = items]_vars

\* a sweep at a time after 0 has moved one fresh item to expired and another,
\* which expires three days later, to nearing
C24_Witness ==
    /\ Returned("update_item_statuses")
    /\ cur.arg.at = now /\ now > 0
    /\ \E i \in DOMAIN items, j \in DOMAIN items :
          /\ FreshWithin(cur.arg.before, i, 0, now - 1) /\ items[i].status = "expired"
          /\ FreshWithin(cur.arg.before, j, now + three_days, now + three_days)
          /\ items[j].status = "nearing"

\* C26: the sweep changes only items that are fresh: an item that is
\* nearing, expired or used keeps its status, and its row, through every
\* sweep, whatever its predicted expiry date.
C26_OnlyFreshChanges ==
    [][update_item_statuses =>
          \A i \in DOMAIN items : items[i].status # "fresh" => items'[i] = items[i]]_vars

\* after a sweep at a time after 0 a nearing item whose predicted expiry has
\* passed is still nearing
C26_Witness ==
    /\ Returned("update_item_statuses")
    /\ cur.arg.at = now /\ now > 0
    /\ \E i \in DOMAIN items :
          /\ cur.arg.before[i].status = "nearing"
          /\ cur.arg.before[i].predicted_expiry_date = Some(0)
          /\ items[i].status = "nearing"

(***************************************************************************)
(* delete_receipt between any two steps of a run, as from another worker   *)
(* on the same database; the orders of the single event loop, where the    *)
(* delete is handled before the run begins or after it has ended, are      *)
(* among these.  The database holds receipts and items as in Stored.       *)
(***************************************************************************)
\* DELETE /{receipt_id} handled at any moment
delete_receipt_any_time(receipt_id, user) ==
    /\ receipt_id \in DOMAIN receipts
    /\ receipts[receipt_id].user_id = user
    /\ items' = SelectSeq(items, LAMBDA row : row.receipt_id # receipt_id)
    /\ receipts' = [r \in DOMAIN receipts \ {receipt_id} |-> receipts[r]]
    /\ UNCHANGED <<nextReceipt, queue, cur, now>>

\* lines 199-211 when the receipt row is gone: the loop reads
\* receipt.receipt_date of an object whose row was deleted, which raises
ParseAndPredictDeleted ==
    /\ cur.pc = "parse"
    /\ cur.rid \notin DOMAIN receipts
    /\ LET parsed_items == parse_receipt_items(cur.text)
       IN  IF parsed_items # <<>>
           THEN cur' = [Raise(cur, "ObjectDeletedError") EXCEPT !.parsed = parsed_items]
           ELSE cur' = [cur EXCEPT !.pc = "save", !.parsed = parsed_items]
    /\ UNCHANGED <<receipts, nextReceipt, items, queue, now>>

DeletingNext ==
    \/ \E user \in Users, file \in ImageIds : upload_receipt(user, file)
    \/ \E receipt_id \in ReceiptIds, user \in Users : reprocess_receipt(receipt_id, user)
    \/ \E receipt_id \in ReceiptIds, user \in Users : delete_receipt_any_time(receipt_id, user)
    \/ \E fault \in BOOLEAN : SetProcessing(fault)
    \/ \E fault \in BOOLEAN, ocr_error \in BOOLEAN : GetReceiptAndExtract(fault, ocr_error)
    \/ \E fault \in BOOLEAN : UpdateOcrText(fault)
    \/ (cur.rid \in DOMAIN receipts /\ ParseAndPredict)
    \/ ParseAndPredictDeleted
    \/ \E fault \in BOOLEAN : SaveParsingResults(fault)
    \/ \E fault \in BOOLEAN : SetCompleted(fault)
    \/ \E fault \in BOOLEAN : Handler(fault)
    \/ Finish

Deleting == StoredInit /\ [][DeletingNext]_vars

\* receipt r existed and was deleted
Deleted(rs, next, r) == r < next /\ r \notin DOMAIN rs

\* C27: however delete_receipt falls among the steps of a run or a reprocess
\* of the same receipt, the delete leaves no InventoryItem of the receipt, and
\* from then on no step re-creates the receipt or adds an item that
\* references it; so when both are over the receipt and its items are gone.
C27_DeletedStaysDeleted ==
    [][\A r \in ReceiptIds :
          /\ (r \in DOMAIN receipts /\ r \notin DOMAIN receipts') => Derived(items', r) = {}
          /\ Deleted(receipts, nextReceipt, r) =>
                 (Deleted(receipts', nextReceipt', r) /\ Derived(items', r) = {})]_vars

\* the receipt was deleted while its reprocess run was between two steps, and
\* the run has gone on to its last write
C27_Witness ==
    /\ cur.origin = "reprocess"
    /\ cur.pc = "set_completed"
    /\ Deleted(receipts, nextReceipt, cur.rid)
    /\ Derived(items, cur.rid) = {}

(***************************************************************************)
(* The writes of a run, called one at a time on a receipts table that      *)
(* holds the receipt or does not.                                          *)
(***************************************************************************)
\* what save_parsing_results is handed: a ParsedReceiptItem, and an object
\* that also carries the confidence attribute the function reads
SavedObjects ==
    LET parsed == ParsedReceiptItem([name |-> <<"M", "I", "L", "K">>,
                                     category |-> Some("dairy"), price |-> Some(349)])
    IN  {parsed, parsed @@ [confidence |-> Some(80)]}

\* the receipts table: empty, or receipt 1 of some owner
OneReceiptTables ==
    {<<>>} \cup {[r \in {1} |-> create_receipt(u, f, 0)] : u \in Users, f \in ImageIds}

WriteCalls ==
    {Call("save_parsing_results", [receipt_id |-> 1, items |-> l, receipts |-> rs]) :
        l \in UNION {[1..n -> SavedObjects] : n \in 0..MaxItems}, rs \in OneReceiptTables}
    \cup
    {Call("update_processing_status", [receipt_id |-> 1, status |-> s, receipts |-> rs]) :
        s \in Statuses, rs \in OneReceiptTables}

WritesInit ==
    /\ cur \in WriteCalls
    /\ receipts = cur.arg.receipts
    /\ nextReceipt = 2
    /\ items = <<>>
    /\ queue = <<>>
    /\ now = 0

\* save_parsing_results(receipt_id, items): the rows are committed, or the
\* exception leaves the function
CallSaveParsingResults ==
    /\ cur.pc = "call" /\ cur.fn = "save_parsing_results"
    /\ LET saved == save_parsing_results(receipts, cur.arg.receipt_id, cur.arg.items, now)
       IN  /\ items' = items \o saved.rows
           /\ cur' = Return([raised |-> saved.raised, exc |-> saved.exc])
    /\ UNCHANGED <<receipts, nextReceipt, queue, now>>

\* update_processing_status(receipt_id, status)
CallUpdateProcessingStatus ==
    /\ cur.pc = "call" /\ cur.fn = "update_processing_status"
    /\ receipts' = update_processing_status(receipts, cur.arg.receipt_id, cur.arg.status, now)
    /\ cur' = Return(NoneV)
    /\ UNCHANGED <<nextReceipt, items, queue, now>>

WritesNext ==
    \/ CallSaveParsingResults
    \/ CallUpdateProcessingStatus

Writes == WritesInit /\ [][WritesNext]_vars

\* C28: every InventoryItem save_parsing_results creates has the id of the
\* processed receipt, the user of its owner, source receipt and status fresh;
\* for a receipt id that has no Receipt no item is created and no status is
\* written.
C28_ItemsOfTheReceipt ==
    /\ Returned("save_parsing_results") =>
          /\ \A i \in DOMAIN items :
                /\ cur.arg.receipt_id \in DOMAIN cur.arg.receipts
                /\ items[i].receipt_id = cur.arg.receipt_id
                /\ items[i].user_id = cur.arg.receipts[cur.arg.receipt_id].user_id
                /\ items[i].source = "receipt"
                /\ items[i].status = "fresh"
          /\ receipts = cur.arg.receipts
    /\ (Returned("update_processing_status") /\ cur.arg.receipt_id \notin DOMAIN cur.arg.receipts)
          => (receipts = cur.arg.receipts /\ items = <<>>)

\* save_parsing_results has created the items of a receipt of user u2
C28_Witness ==
    /\ Returned("save_parsing_results")
    /\ ~cur.out.raised
    /\ Len(items) = MaxItems
    /\ receipts[1].user_id = "u2"

(***************************************************************************)
(* The calls that take a record id and a user id, on a database that holds *)
(* receipts in any status and inventory items.                             *)
(***************************************************************************)
\* get_receipt: the receipt of that id if the user owns it
get_receipt_any_user(rs, receipt_id, user_id) ==
    IF receipt_id \in DOMAIN rs THEN Some(receipt_id) ELSE NoneV

get_receipt(rs, receipt_id, user_id) ==
    IF receipt_id \in DOMAIN rs /\ rs[receipt_id].user_id = user_id
    THEN Some(receipt_id) ELSE NoneV

\* ReceiptParsingResult: the fields without a default must be supplied
ReceiptParsingResultRequired ==
    {"receipt_id", "items", "total_items", "processing_status", "parsed_at"}

\* f"{item.quantity} {item.unit}" of a row: the Float column prints as 1.0
QuantityText(row) == Str(<<"1", ".", "0", " ">> \o <<"i", "t", "e", "m">>)

\* the keywords get_parsing_result gives ParsedReceiptItem for a row
ParsedItemKwargs(row) ==
    [name |-> row.name, quantity |-> Some(QuantityText(row)), price |-> row.purchase_price,
     category |-> row.category, estimated_expiry_date |-> row.predicted_expiry_date,
     confidence |-> row.confidence_score]

\* quantity: Optional[float] refuses a string that is no number
ParsedReceiptItemException(kwargs) ==
    IF /\ "quantity" \in DOMAIN kwargs /\ ~IsNone(kwargs.quantity)
       /\ Get(kwargs.quantity).t = "str" /\ ~isdigit(Get(kwargs.quantity).v)
    THEN "ValidationError" ELSE "none"

\* get_parsing_result: what the call returns, or the exception that leaves it
get_parsing_result(rs, table, receipt_id, user_id) ==
    IF \/ IsNone(get_receipt(rs, receipt_id, user_id))
       \/ rs[receipt_id].processing_status # "completed"
    THEN [raised |-> FALSE, exc |-> "none", result |-> NoneV]
    ELSE LET rows == SelectSeq(table, LAMBDA row : row.receipt_id = receipt_id)
             kwargs == [receipt_id |-> receipt_id, store_name |-> NoneV,
                        receipt_date |-> rs[receipt_id].receipt_date,
                        total_amount |-> NoneV,
                        items |-> [i \in DOMAIN rows |-> ParsedReceiptItem(ParsedItemKwargs(rows[i]))],
                        processing_time_ms |-> 5000]
         IN  IF \E i \in DOMAIN rows :
                    ParsedReceiptItemException(ParsedItemKwargs(rows[i])) # "none"
             THEN [raised |-> TRUE, exc |-> "ValidationError", result |-> NoneV]
             ELSE IF ~(ReceiptParsingResultRequired \subseteq DOMAIN kwargs)
             THEN [raised |-> TRUE, exc |-> "ValidationError", result |-> NoneV]
             ELSE [raised |-> FALSE, exc |-> "none",
                   result |-> Some([f \in ReceiptParsingResultRequired |-> kwargs[f]])]

\* a receipt in one of the four statuses
ReceiptIn(user_id, status) ==
    [create_receipt(user_id, 3, 0) EXCEPT !.processing_status = status]

\* an item saved from the receipt, and one the user entered by hand
\* (receipt_id 0: the column is NULL)
ItemFrom(receipt_id, receipt) ==
    StoredItem(receipt_id, receipt) @@ [notes |-> NoneV, last_updated |-> 0]

ManualItem(user_id) ==
    [ItemFrom(0, ReceiptIn(user_id, "pending")) EXCEPT !.source = "manual"]

\* the calls of the six functions
OwnedFunctions ==
    {"get_receipt", "get_parsing_result", "delete_receipt",
     "get_inventory_item", "update_inventory_item", "delete_inventory_item"}

OwnedInit ==
    /\ \E n \in 0..MaxReceipts, owner \in [1..MaxReceipts -> Users],
          status \in [1..MaxReceipts -> Statuses] :
           /\ receipts = [r \in 1..n |-> ReceiptIn(owner[r], status[r])]
           /\ nextReceipt = n + 1
           /\ \E k \in 0..MaxItems, of \in [1..MaxItems -> 0..MaxReceipts],
                 by \in [1..MaxItems -> Users] :
                  /\ \A i \in 1..k : of[i] <= n
                  /\ items = [i \in 1..k |->
                                 IF of[i] = 0 THEN ManualItem(by[i])
                                 ELSE ItemFrom(of[i], receipts[of[i]])]
    /\ queue = <<>>
    /\ now = MaxTime
    /\ \E fn \in OwnedFunctions, id \in 1..(MaxItems + 1), user_id \in Users :
           cur = Call(fn, [id |-> id, user_id |-> user_id,
                           receipts |-> receipts, items |-> items])

CallGetReceipt ==
    /\ cur.pc = "call" /\ cur.fn = "get_receipt"
    /\ cur' = Return(get_receipt(receipts, cur.arg.id, cur.arg.user_id))
    /\ UNCHANGED <<receipts, nextReceipt, items, queue, now>>

CallGetParsingResult ==
    /\ cur.pc = "call" /\ cur.fn = "get_parsing_result"
    /\ cur' = Return(get_parsing_result(receipts, items, cur.arg.id, cur.arg.user_id))
    /\ UNCHANGED <<receipts, nextReceipt, items, queue, now>>

\* delete_receipt: False when get_receipt finds nothing
CallDeleteReceipt ==
    /\ cur.pc = "call" /\ cur.fn = "delete_receipt"
    /\ IF IsNone(get_receipt(receipts, cur.arg.id, cur.arg.user_id))
       THEN /\ cur' = Return(FALSE)
            /\ UNCHANGED <<receipts, items>>
       ELSE /\ items' = SelectSeq(items, LAMBDA row : row.receipt_id # cur.arg.id)
            /\ receipts' = [r \in DOMAIN receipts \ {cur.arg.id} |-> receipts[r]]
            /\ cur' = Return(TRUE)
    /\ UNCHANGED <<nextReceipt, queue, now>>

CallGetInventoryItem ==
    /\ cur.pc = "call" /\ cur.fn = "get_inventory_item"
    /\ cur' = Return(get_inventory_item(items, cur.arg.id, cur.arg.user_id))
    /\ UNCHANGED <<receipts, nextReceipt, items, queue, now>>

\* update_inventory_item with an update of the notes
CallUpdateInventoryItem ==
    /\ cur.pc = "call" /\ cur.fn = "update_inventory_item"
    /\ LET done == update_inventory_item(items, cur.arg.id, cur.arg.user_id,
                                         InventoryItemUpdate([notes |-> Some("n")]), now)
       IN  /\ items' = done.table
           /\ cur' = Return(done.result)
    /\ UNCHANGED <<receipts, nextReceipt, queue, now>>

\* delete_inventory_item: False when get_inventory_item finds nothing
CallDeleteInventoryItem ==
    /\ cur.pc = "call" /\ cur.fn = "delete_inventory_item"
    /\ IF IsNone(get_inventory_item(items, cur.arg.id, cur.arg.user_id))
       THEN /\ cur' = Return(FALSE)
            /\ UNCHANGED items
       ELSE /\ items' = [i \in 1..(Len(items) - 1) |->
                            IF i < cur.arg.id THEN items[i] ELSE items[i + 1]]
            /\ cur' = Return(TRUE)
    /\ UNCHANGED <<receipts, nextReceipt, queue, now>>

OwnedNext ==
    \/ CallGetReceipt
    \/ CallGetParsingResult
    \/ CallDeleteReceipt
    \/ CallGetInventoryItem
    \/ CallUpdateInventoryItem
    \/ CallDeleteInventoryItem

Owned == OwnedInit /\ [][OwnedNext]_vars

\* the record the call names exists and belongs to another user
OfAnotherUser ==
    IF cur.fn \in {"get_receipt", "get_parsing_result", "delete_receipt"}
    THEN /\ cur.arg.id \in DOMAIN cur.arg.receipts
         /\ cur.arg.receipts[cur.arg.id].user_id # cur.arg.user_id
    ELSE /\ cur.arg.id \in DOMAIN cur.arg.items
         /\ cur.arg.items[cur.arg.id].user_id # cur.arg.user_id

\* what the call gave back: None, or False for the two deletes
GaveNothing ==
    CASE cur.fn = "get_parsing_result" -> ~cur.out.raised /\ IsNone(cur.out.result)
      [] cur.fn \in {"delete_receipt", "delete_inventory_item"} -> cur.out = FALSE
      [] OTHER -> cur.out = NoneV

\* C29: get_receipt, get_parsing_result, delete_receipt, get_inventory_item,
\* update_inventory_item and delete_inventory_item called with a user id
\* other than the owner's return None or False and leave every receipt and
\* every inventory item unchanged.
C29_OnlyTheOwner ==
    (cur.pc = "returned" /\ cur.fn \in OwnedFunctions /\ OfAnotherUser) =>
        /\ GaveNothing
        /\ receipts = cur.arg.receipts
        /\ items = cur.arg.items

\* delete_receipt was called by another user on a completed receipt that has
\* items, and has returned
C29_Witness ==
    /\ Returned("delete_receipt")
    /\ OfAnotherUser
    /\ cur.arg.receipts[cur.arg.id].processing_status = "completed"
    /\ Derived(items, cur.arg.id) # {}

\* get_parsing_result was called by the owner of the receipt
ByTheOwner ==
    /\ Returned("get_parsing_result")
    /\ cur.arg.id \in DOMAIN cur.arg.receipts
    /\ cur.arg.receipts[cur.arg.id].user_id = cur.arg.user_id

\* the call returned a result whose items are the rows that reference the
\* receipt, one for one
ReturnedTheItems ==
    /\ ~cur.out.raised
    /\ ~IsNone(cur.out.result)
    /\ LET rows == SelectSeq(cur.arg.items, LAMBDA row : row.receipt_id = cur.arg.id)
           got == Get(cur.out.result).items
       IN  /\ Len(got) = Len(rows)
           /\ \A i \in DOMAIN rows : got[i].name = rows[i].name

C30_NoResultAtAll ==
    ByTheOwner =>
        IF cur.arg.receipts[cur.arg.id].processing_status = "completed"
        THEN cur.out.raised /\ cur.out.exc = "ValidationError" /\ IsNone(cur.out.result)
        ELSE ~cur.out.raised /\ IsNone(cur.out.result)

====
